---------------------------- MODULE Spec2Model ----------------------------
(***************************************************************************)
(* Form-field detection (FormFieldDetector), answer matching and type-     *)
(* aware injection (FieldInjector) and the chat panel's apply handler      *)
(* (ChatPanel.handleApplyFormAnswers) of the Netherite extension.          *)
(*                                                                         *)
(* Strings the code processes character by character are sequences of     *)
(* one-character strings; <<>> is the empty string.  Timers fire in the    *)
(* order of their deadlines; the model keeps that order, not the dates.    *)
(***************************************************************************)
EXTENDS Integers, Sequences, FiniteSets, TLC

VARIABLES
    doc,              \* the page: element records in document order (attributes)
    tzOffset,         \* host time zone, minutes east of UTC
    value,            \* element -> its .value
    checked,          \* element -> its .checked
    style,            \* element -> [border, boxShadow] of its inline style
    detectedFields,   \* FormFieldDetector.detectedFields
    formFields,       \* ChatPanel.viewModeContext.formFields
    generatedAnswers, \* ChatPanel.generatedAnswers
    applyDisabled,    \* applyBtn.disabled
    batches,          \* injectAnswers invocations that have not returned
    started,          \* number of injectAnswers invocations so far
    selected,         \* select element -> the indices of its selected options
    injectedFields,   \* FieldInjector.injectedFields (the registry)
    timers,           \* pending highlight-removal timers, oldest first
    dispatched,       \* the events dispatched by the latest step
    last,             \* what the latest step did (operation and its outcome)
    aiAnswers         \* the answer lists the assistant's responses parse into

vars == <<doc, tzOffset, value, checked, style, detectedFields, formFields,
          generatedAnswers, applyDisabled, batches, started, selected,
          injectedFields, timers, dispatched, last, aiAnswers>>

-----------------------------------------------------------------------------
(* Strings *)

UpperChars == <<"A","B","C","D","E","F","G","H","I","J","K","L","M",
                "N","O","P","Q","R","S","T","U","V","W","X","Y","Z">>
LowerChars == <<"a","b","c","d","e","f","g","h","i","j","k","l","m",
                "n","o","p","q","r","s","t","u","v","w","x","y","z">>
DigitChars == <<"0","1","2","3","4","5","6","7","8","9">>
WhiteSpace == {" ", "\t"}

Range(s) == {s[i] : i \in DOMAIN s}

IsUpper(c) == c \in Range(UpperChars)
IsLower(c) == c \in Range(LowerChars)
IsDigit(c) == c \in Range(DigitChars)

LowerChar(c) ==
    IF IsUpper(c)
    THEN LowerChars[CHOOSE i \in DOMAIN UpperChars : UpperChars[i] = c]
    ELSE c

UpperChar(c) ==
    IF IsLower(c)
    THEN UpperChars[CHOOSE i \in DOMAIN LowerChars : LowerChars[i] = c]
    ELSE c

\* String.prototype.toLowerCase
ToLowerCase(s) == [i \in 1..Len(s) |-> LowerChar(s[i])]

\* String.prototype.includes
Includes(s, t) ==
    \E i \in 0..(Len(s) - Len(t)) : SubSeq(s, i + 1, i + Len(t)) = t

\* the characters of s at the positions K, in order
RECURSIVE SeqFrom(_,_,_)
SeqFrom(s, K, i) ==
    IF i > Len(s) THEN <<>>
    ELSE IF i \in K THEN <<s[i]>> \o SeqFrom(s, K, i + 1)
    ELSE SeqFrom(s, K, i + 1)

SeqOfIdx(s, K) == SeqFrom(s, K, 1)

\* String.prototype.trim
Trim(s) ==
    LET ink == {i \in 1..Len(s) : s[i] \notin WhiteSpace}
    IN  IF ink = {} THEN <<>>
        ELSE SubSeq(s, CHOOSE i \in ink : \A j \in ink : i <= j,
                       CHOOSE i \in ink : \A j \in ink : j <= i)

\* s.replace(/\s+/g, ' ')
CollapseSpaces(s) ==
    LET t == [i \in 1..Len(s) |-> IF s[i] \in WhiteSpace THEN " " ELSE s[i]]
    IN  SeqOfIdx(t, {i \in 1..Len(s) : ~(t[i] = " " /\ i > 1 /\ t[i-1] = " ")})


-----------------------------------------------------------------------------
(* The page.  An element is a record of the attributes and properties the   *)
(* detector and the injector read; value, checked and style are kept apart  *)
(* because the injector writes them.                                        *)

NoElem == [
    tag         |-> "INPUT",     \* tagName: INPUT, TEXTAREA or SELECT
    type        |-> "text",      \* the .type property
    name        |-> <<>>,
    id          |-> <<>>,
    disabled    |-> FALSE,
    readOnly    |-> FALSE,
    display     |-> "block",     \* computed style display
    visibility  |-> "visible",   \* computed style visibility
    forms       |-> {},          \* the <form> elements it is a descendant of
    labelFor    |-> <<>>,        \* textContent of label[for=id]
    wrapLabel   |-> <<>>,        \* textContent of the closest <label>
    ariaLabel   |-> <<>>,
    labelledBy  |-> <<>>,        \* textContent of the aria-labelledby element
    title       |-> <<>>,
    placeholder |-> <<>>,
    nearby      |-> <<>>,        \* preceding sibling / parent text
    nextText    |-> <<>>,        \* text node that follows the element
    valueAttr   |-> <<>>,        \* value attribute
    required    |-> FALSE,
    ariaRequired|-> FALSE,
    maxLength   |-> -1,          \* .maxLength, -1 when not declared
    pattern     |-> <<>>,        \* pattern attribute
    hasMin      |-> FALSE,
    min         |-> 0,
    hasMax      |-> FALSE,
    max         |-> 0,
    options     |-> <<>>,        \* <option>s of a select: [text, value]
    noStyle     |-> FALSE,       \* getComputedStyle gives no style to read
    dynamic     |-> FALSE ]      \* a page script enables and disables it

Elems == DOMAIN doc

\* the <form> elements of the page, in document order
Forms == UNION {doc[e].forms : e \in Elems}

\* HTMLInputElement.form: the nearest form ancestor, 0 when there is none
OwnerForm(e) ==
    IF doc[e].forms = {} THEN 0
    ELSE CHOOSE f \in doc[e].forms : \A g \in doc[e].forms : g <= f

\* window.getComputedStyle(element): shown unless display:none or visibility:hidden
StyleHides(el) == el.display = "none" \/ el.visibility = "hidden"

-----------------------------------------------------------------------------
(* FormFieldDetector *)

sCsrf      == <<"c","s","r","f">>
sToken     == <<"t","o","k","e","n">>
s_Token    == <<"_","t","o","k","e","n">>
sAuthTok   == <<"a","u","t","h","e","n","t","i","c","i","t","y","_","t","o","k","e","n">>
sUtf8      == <<"u","t","f","8">>
s_Method   == <<"_","m","e","t","h","o","d">>
sCommit    == <<"c","o","m","m","i","t">>
sSubmit    == <<"s","u","b","m","i","t">>
sCaptcha   == <<"c","a","p","t","c","h","a">>
sRecaptcha == <<"r","e","c","a","p","t","c","h","a">>
sGRecaptcha == <<"g","-","r","e","c","a","p","t","c","h","a","-",
                 "r","e","s","p","o","n","s","e">>

skipNames == {sCsrf, sToken, s_Token, sAuthTok, sUtf8, s_Method, sCommit,
              sSubmit, sCaptcha, sRecaptcha, sGRecaptcha}

\* the same test without the toLowerCase() of name and id
IsSystemFieldCaseSensitive(el) ==
    \E skip \in skipNames : Includes(el.name, skip) \/ Includes(el.id, skip)

\* name or id contains a system token, case-insensitively
IsSystemField(el) ==
    \E skip \in skipNames :
        \/ Includes(ToLowerCase(el.name), skip)
        \/ Includes(ToLowerCase(el.id), skip)

\* a select has no readOnly property
ReadOnlySkip(el) == el.tag # "SELECT" /\ el.readOnly /\ el.type # "text"

\* a selector `[name="..."]` or `label[for="..."]` built from text holding a
\* double quote or a backslash is not a valid selector: querySelector throws
BadSelectorText(t) == \E i \in DOMAIN t : t[i] \in {"\"", "\\"}

\* the checks of shouldSkipField that come before the computed style is read
SkippedBeforeStyle(el) ==
    \/ el.type = "hidden"
    \/ el.disabled
    \/ ReadOnlySkip(el)
    \/ IsSystemField(el)

\* style.display is read off a missing style: a TypeError leaves
\* shouldSkipField, which no try block encloses
SkipThrows(el) == ~SkippedBeforeStyle(el) /\ el.noStyle

ShouldSkipField(el) ==
    \/ el.type = "hidden"
    \/ el.disabled
    \/ ReadOnlySkip(el)
    \/ IsSystemField(el)
    \/ StyleHides(el)

\* text.trim().replace(/\s+/g,' ').replace(/[*:]+$/,'').trim()
StripDecoration(s) ==
    LET keep == {i \in 1..Len(s) : s[i] \notin {"*", ":"}}
    IN  IF keep = {} THEN <<>>
        ELSE SubSeq(s, 1, CHOOSE i \in keep : \A j \in keep : j <= i)

cleanLabelText(text) == Trim(StripDecoration(CollapseSpaces(Trim(text))))

\* name.replace(/[_-]/g,' ').replace(/([a-z])([A-Z])/g,'$1 $2').toLowerCase()
\*     .replace(/^./, upper)
SplitCamel(s) ==
    LET n    == Len(s)
        gaps == {i \in 1..(n - 1) : IsLower(s[i]) /\ IsUpper(s[i + 1])}
        \* position k of the result: the character, or the space put after a gap
        src(k) == CHOOSE i \in 1..n :
                     i + Cardinality({g \in gaps : g < i}) = k
        isGap(k) == \E g \in gaps : g + Cardinality({h \in gaps : h < g}) + 1 = k
    IN  [k \in 1..(n + Cardinality(gaps)) |->
            IF isGap(k) THEN " " ELSE s[src(k)]]

formatNameAsLabel(name) ==
    LET a == [i \in 1..Len(name) |->
                 IF name[i] \in {"_", "-"} THEN " " ELSE name[i]]
        b == ToLowerCase(SplitCamel(a))
    IN  IF b = <<>> THEN b ELSE <<UpperChar(b[1])>> \o Tail(b)

sUnlabeled == <<"U","n","l","a","b","e","l","e","d"," ","f","i","e","l","d">>

findFieldLabel(el) ==
    IF el.id # <<>> /\ el.labelFor # <<>> THEN cleanLabelText(el.labelFor)
    ELSE IF el.wrapLabel # <<>>   THEN cleanLabelText(el.wrapLabel)
    ELSE IF el.ariaLabel # <<>>   THEN cleanLabelText(el.ariaLabel)
    ELSE IF el.labelledBy # <<>>  THEN cleanLabelText(el.labelledBy)
    ELSE IF el.title # <<>>       THEN cleanLabelText(el.title)
    ELSE IF el.placeholder # <<>> THEN cleanLabelText(el.placeholder)
    ELSE IF el.name # <<>>        THEN formatNameAsLabel(el.name)
    ELSE IF el.nearby # <<>>      THEN cleanLabelText(el.nearby)
    ELSE sUnlabeled

\* typeMapping[type] || type
typeMapping(type) ==
    CASE type = "tel"            -> "phone"
      [] type = "datetime-local" -> "datetime"
      [] OTHER                   -> type

getFieldType(el) ==
    IF el.tag = "TEXTAREA" THEN "textarea"
    ELSE IF el.tag = "SELECT" THEN el.type
    ELSE typeMapping(el.type)

sRequired == <<"r","e","q","u","i","r","e","d">>

isFieldRequired(el) ==
    \/ el.required
    \/ el.ariaRequired
    \/ Includes(findFieldLabel(el), <<"*">>)
    \/ Includes(ToLowerCase(findFieldLabel(el)), sRequired)

\* document.querySelector(`label[for="${element.id}"]`) throws inside the try
\* block of extractFieldInfo, which then returns null
ExtractFails(el) == BadSelectorText(el.id)

DigitVal(c) == (CHOOSE i \in DOMAIN DigitChars : DigitChars[i] = c) - 1

AllDigits(s) == s # <<>> /\ \A i \in DOMAIN s : IsDigit(s[i])

RECURSIVE ParseNat(_)
ParseNat(s) ==
    IF s = <<>> THEN 0
    ELSE ParseNat(SubSeq(s, 1, Len(s) - 1)) * 10 + DigitVal(s[Len(s)])

\* the last of the digits that run from position i of p (i - 1: none)
DigitsEnd(p, i) ==
    LET others == {j \in i..Len(p) : ~IsDigit(p[j])}
    IN  IF others = {} THEN Len(p)
        ELSE (CHOOSE j \in others : \A k \in others : j <= k) - 1

\* /\{(\d+),?(\d+)?\}/ tried at position i of p: the two groups when it matches
LengthMatchAt(p, i) ==
    LET b     == DigitsEnd(p, i + 1)
        comma == b + 1 <= Len(p) /\ p[b + 1] = ","
        c     == IF comma THEN DigitsEnd(p, b + 2) ELSE b
    IN  [ok |-> /\ p[i] = "{"
                /\ b >= i + 1
                /\ c + 1 <= Len(p)
                /\ p[c + 1] = "}",
         g1 |-> SubSeq(p, i + 1, b),
         g2 |-> IF comma THEN SubSeq(p, b + 2, c) ELSE <<>>]

\* getMaxLength: the maxLength property when it is positive, else for an input
\* the length its pattern attribute hints at, else undefined (-1)
getMaxLength(el) ==
    IF el.maxLength > 0 THEN el.maxLength
    ELSE IF el.tag = "INPUT" /\ el.pattern # <<>>
    THEN LET p  == el.pattern
             at == {i \in DOMAIN p : LengthMatchAt(p, i).ok}
             m  == LengthMatchAt(p, CHOOSE i \in at : \A j \in at : i <= j)
         IN  IF at # {}
             THEN ParseNat(IF m.g2 # <<>> THEN m.g2 ELSE m.g1)
             ELSE -1
    ELSE -1

extractFieldInfo(e) ==
    [ element   |-> e,
      label     |-> findFieldLabel(doc[e]),
      type      |-> getFieldType(doc[e]),
      required  |-> isFieldRequired(doc[e]),
      maxLength |-> getMaxLength(doc[e]) ]

\* processFieldElement applied to the elements es (in order): the records pushed
RECURSIVE processFieldElements(_)
processFieldElements(es) ==
    IF es = <<>> THEN <<>>
    ELSE (IF ShouldSkipField(doc[Head(es)]) \/ ExtractFails(doc[Head(es)])
          THEN <<>>
          ELSE <<extractFieldInfo(Head(es))>>)
         \o processFieldElements(Tail(es))

\* the members of the set S of numbers as an ascending sequence
Ascending(S) ==
    [k \in 1..Cardinality(S) |->
        CHOOSE i \in S : Cardinality({j \in S : j < i}) = k - 1]

\* form.querySelectorAll('input, textarea, select')
FormInputs(f) == Ascending({e \in Elems : f \in doc[e].forms})

\* allInputs filtered by !input.closest('form')
Standalone == Ascending({e \in Elems : doc[e].forms = {}})

RECURSIVE processForms(_)
processForms(fs) ==
    IF fs = <<>> THEN <<>>
    ELSE processFieldElements(FormInputs(Head(fs))) \o processForms(Tail(fs))

\* the filter with 'image' missing from its list of types
RECURSIVE filterKeepingImage(_,_)
filterKeepingImage(fields, seen) ==
    IF fields = <<>> THEN <<>>
    ELSE LET f == Head(fields) IN
         IF f.element \in seen \/ f.type \in {"submit", "button", "reset"}
         THEN filterKeepingImage(Tail(fields), seen)
         ELSE <<f>> \o filterKeepingImage(Tail(fields), seen \cup {f.element})

RECURSIVE filterAndDeduplicateFields(_,_)
filterAndDeduplicateFields(fields, seen) ==
    IF fields = <<>> THEN <<>>
    ELSE LET f == Head(fields) IN
         IF f.element \in seen
         THEN filterAndDeduplicateFields(Tail(fields), seen)
         ELSE IF f.type \in {"submit", "button", "reset", "image"}
         THEN filterAndDeduplicateFields(Tail(fields), seen)
         ELSE <<f>> \o filterAndDeduplicateFields(Tail(fields),
                                                  seen \cup {f.element})

\* the elements in the order detectFields() hands them to processFieldElement
RECURSIVE VisitForms(_)
VisitForms(fs) ==
    IF fs = <<>> THEN <<>> ELSE FormInputs(Head(fs)) \o VisitForms(Tail(fs))

Visited == VisitForms(Ascending(Forms)) \o Standalone

\* an exception leaves detectFields(): the skip check of some element throws
ScanThrows == \E k \in DOMAIN Visited : SkipThrows(doc[Visited[k]])

\* this.detectedFields when the exception leaves: the records pushed so far
ScanPartial ==
    LET k == CHOOSE i \in DOMAIN Visited :
                 /\ SkipThrows(doc[Visited[i]])
                 /\ \A j \in 1..(i - 1) : ~SkipThrows(doc[Visited[j]])
    IN  processFieldElements(SubSeq(Visited, 1, k - 1))

\* the standalone fields handled before the forms
ScanStandaloneFirst ==
    filterAndDeduplicateFields(
        processFieldElements(Standalone) \o processForms(Ascending(Forms)), {})

\* the catalog detectFields() computes for the current page
Scan ==
    filterAndDeduplicateFields(
        processForms(Ascending(Forms)) \o processFieldElements(Standalone), {})


-----------------------------------------------------------------------------
(* FieldInjector: the matcher *)

\* the whitespace collapsed before the other characters are removed
normalizeLabelCollapseFirst(label) ==
    LET l == CollapseSpaces(ToLowerCase(label))
    IN  Trim(SeqOfIdx(l, {i \in 1..Len(l) :
                 IsLower(l[i]) \/ IsDigit(l[i]) \/ l[i] \in WhiteSpace}))

\* label.toLowerCase().replace(/[^a-z0-9\s]/g,'').replace(/\s+/g,' ').trim()
normalizeLabel(label) ==
    LET l == ToLowerCase(label)
        k == SeqOfIdx(l, {i \in 1..Len(l) :
                 IsLower(l[i]) \/ IsDigit(l[i]) \/ l[i] \in WhiteSpace})
    IN  Trim(CollapseSpaces(k))

sThe == <<"t","h","e">>
sAnd == <<"a","n","d">>
sBut == <<"b","u","t">>
sFor == <<"f","o","r">>
sWith == <<"w","i","t","h">>
sYour == <<"y","o","u","r">>
sYou == <<"y","o","u">>
sEnter == <<"e","n","t","e","r">>
sPlease == <<"p","l","e","a","s","e">>

stopWords == {sThe, sAnd, sBut, sFor, sWith, sYour, sYou, sEnter, sPlease,
              <<"a">>, <<"a","n">>, <<"o","r">>, <<"i","n">>, <<"o","n">>,
              <<"a","t">>, <<"t","o">>, <<"o","f">>, <<"b","y">>}

\* text.split(sep): the pieces between the separators, empty ones included
Split(text, sep) ==
    LET n    == Len(text)
        cuts == {0} \cup {i \in 1..n : text[i] = sep} \cup {n + 1}
        c    == Ascending(cuts)
    IN  [k \in 1..(Cardinality(cuts) - 1) |-> SubSeq(text, c[k] + 1, c[k + 1] - 1)]

extractKeywords(text) ==
    SelectSeq(Split(text, " "), LAMBDA w : Len(w) > 2 /\ w \notin stopWords)

\* the number of keywords of k1 that match some keyword of k2
KeywordMatches(k1, k2) ==
    Cardinality({i \in DOMAIN k1 :
        \E j \in DOMAIN k2 :
            k1[i] = k2[j] \/ Includes(k1[i], k2[j]) \/ Includes(k2[j], k1[i])})

\* the score as a fraction [num, den]; 0 is [0, 1]
calculateMatchScore(k1, k2) ==
    IF Len(k1) = 0 \/ Len(k2) = 0 THEN [num |-> 0, den |-> 1]
    ELSE [num |-> KeywordMatches(k1, k2),
          den |-> IF Len(k1) >= Len(k2) THEN Len(k1) ELSE Len(k2)]

ScoreGreater(a, b) == a.num * b.den > b.num * a.den

NoField == [element |-> 0]

\* the keyword loop with a threshold of score >= 0.5
RECURSIVE FuzzyMatchFromHalf(_,_,_,_,_)
FuzzyMatchFromHalf(answerKeywords, fields, k, bestMatch, bestScore) ==
    IF k > Len(fields) THEN bestMatch
    ELSE LET score == calculateMatchScore(answerKeywords,
                          extractKeywords(normalizeLabel(fields[k].label)))
         IN  IF ScoreGreater(score, bestScore) /\ 2 * score.num >= score.den
             THEN FuzzyMatchFromHalf(answerKeywords, fields, k + 1, fields[k],
                                     score)
             ELSE FuzzyMatchFromHalf(answerKeywords, fields, k + 1, bestMatch,
                                     bestScore)

\* the keyword loop of findMatchingField from field k on
RECURSIVE FuzzyMatch(_,_,_,_,_)
FuzzyMatch(answerKeywords, fields, k, bestMatch, bestScore) ==
    IF k > Len(fields) THEN bestMatch
    ELSE LET score == calculateMatchScore(answerKeywords,
                          extractKeywords(normalizeLabel(fields[k].label)))
         IN  IF ScoreGreater(score, bestScore) /\ 2 * score.num > score.den
             THEN FuzzyMatch(answerKeywords, fields, k + 1, fields[k], score)
             ELSE FuzzyMatch(answerKeywords, fields, k + 1, bestMatch, bestScore)

\* one loop that takes the first field matching exactly or by containment
findMatchingFieldInOneLoop(answerLabel, fields) ==
    LET a    == normalizeLabel(answerLabel)
        hits == {k \in DOMAIN fields :
                    \/ normalizeLabel(fields[k].label) = a
                    \/ Includes(normalizeLabel(fields[k].label), a)
                    \/ Includes(a, normalizeLabel(fields[k].label))}
    IN  IF hits # {} THEN fields[CHOOSE k \in hits : \A j \in hits : k <= j]
        ELSE FuzzyMatch(extractKeywords(a), fields, 1, NoField,
                        [num |-> 0, den |-> 1])

findMatchingField(answerLabel, fields) ==
    LET a       == normalizeLabel(answerLabel)
        exact   == {k \in DOMAIN fields : normalizeLabel(fields[k].label) = a}
        partial == {k \in DOMAIN fields :
                       \/ Includes(normalizeLabel(fields[k].label), a)
                       \/ Includes(a, normalizeLabel(fields[k].label))}
        first(S) == CHOOSE k \in S : \A j \in S : k <= j
    IN  IF exact # {} THEN fields[first(exact)]
        ELSE IF partial # {} THEN fields[first(partial)]
        ELSE FuzzyMatch(extractKeywords(a), fields, 1, NoField,
                        [num |-> 0, den |-> 1])


-----------------------------------------------------------------------------
(* Dates: new Date(text) and Date.prototype.toISOString, as parseDate uses   *)
(* them.  A Date is a number of minutes since 1970-01-01T00:00Z.            *)

MinutesPerDay == 24 * 60

\* n in decimal, at least w digits
RECURSIVE Digits(_,_)
Digits(n, w) ==
    IF n < 10 /\ w <= 1 THEN <<DigitChars[n + 1]>>
    ELSE Digits(n \div 10, w - 1) \o <<DigitChars[(n % 10) + 1]>>

\* days from 1970-01-01 to the civil date y-m-d (proleptic Gregorian)
DaysFromCivil(y, m, d) ==
    LET yy  == IF m <= 2 THEN y - 1 ELSE y
        era == yy \div 400
        yoe == yy - era * 400
        mp  == (m + 9) % 12
        doy == (153 * mp + 2) \div 5 + d - 1
        doe == yoe * 365 + yoe \div 4 - yoe \div 100 + doy
    IN  era * 146097 + doe - 719468

\* the civil date [y, m, d] of the day number z
CivilFromDays(z) ==
    LET zz  == z + 719468
        era == zz \div 146097
        doe == zz - era * 146097
        yoe == (doe - doe \div 1460 + doe \div 36524 - doe \div 146096) \div 365
        doy == doe - (365 * yoe + yoe \div 4 - yoe \div 100)
        mp  == (5 * doy + 2) \div 153
        d   == doy - (153 * mp + 2) \div 5 + 1
        m   == IF mp < 10 THEN mp + 3 ELSE mp - 9
        y   == yoe + era * 400
    IN  [y |-> IF m <= 2 THEN y + 1 ELSE y, m |-> m, d |-> d]

MonthNames == <<
    <<"j","a","n","u","a","r","y">>, <<"f","e","b","r","u","a","r","y">>,
    <<"m","a","r","c","h">>, <<"a","p","r","i","l">>, <<"m","a","y">>,
    <<"j","u","n","e">>, <<"j","u","l","y">>, <<"a","u","g","u","s","t">>,
    <<"s","e","p","t","e","m","b","e","r">>, <<"o","c","t","o","b","e","r">>,
    <<"n","o","v","e","m","b","e","r">>, <<"d","e","c","e","m","b","e","r">> >>

\* a month name or its three-letter abbreviation, in any case; 0 when w is neither
MonthOf(w) ==
    LET l == ToLowerCase(w)
        M == {k \in DOMAIN MonthNames :
                 l = MonthNames[k] \/ l = SubSeq(MonthNames[k], 1, 3)}
    IN  IF M = {} THEN 0 ELSE CHOOSE k \in M : TRUE

IsWordChar(c) == IsLower(c) \/ IsUpper(c) \/ IsDigit(c) \/ c = "_"

sOn == <<"o","n">>
sAt == <<"a","t">>
sIn == <<"i","n">>
sOf == <<"o","f">>
sBy == <<"b","y">>
Connectives == {sOn, sAt, sIn, sThe, sOf, sBy}

\* dateStr.replace(/\b(on|at|in|the|of|by)\b/gi, ''): a \b...\b match is a
\* maximal run of word characters
RemoveConnectives(t) ==
    LET n == Len(t)
        runStart(i) == CHOOSE a \in 1..i :
                          /\ \A j \in a..i : IsWordChar(t[j])
                          /\ (a = 1 \/ ~IsWordChar(t[a - 1]))
        runEnd(i)   == CHOOSE b \in i..n :
                          /\ \A j \in i..b : IsWordChar(t[j])
                          /\ (b = n \/ ~IsWordChar(t[b + 1]))
        dropped(i)  == /\ IsWordChar(t[i])
                       /\ ToLowerCase(SubSeq(t, runStart(i), runEnd(i)))
                              \in Connectives
    IN  SeqOfIdx(t, {i \in 1..n : ~dropped(i)})

Invalid == [valid |-> FALSE, t |-> 0]

DayOk(y, m, d) == m \in 1..12 /\ d \in 1..31 /\ y \in 1..9999

\* a date without a time in the host's local time zone
LocalMidnight(y, m, d, tz) ==
    IF DayOk(y, m, d)
    THEN [valid |-> TRUE, t |-> DaysFromCivil(y, m, d) * MinutesPerDay - tz]
    ELSE Invalid

\* an ISO date-only string is UTC
UtcMidnight(y, m, d) ==
    IF DayOk(y, m, d)
    THEN [valid |-> TRUE, t |-> DaysFromCivil(y, m, d) * MinutesPerDay]
    ELSE Invalid

DropComma(w) ==
    IF w # <<>> /\ w[Len(w)] = "," THEN SubSeq(w, 1, Len(w) - 1) ELSE w

\* new Date(text) for the forms "D Month YYYY", "Month D, YYYY" (local time)
\* and "YYYY-MM-DD" (UTC); anything else is an Invalid Date
NewDate(text, tz) ==
    LET ws == SelectSeq(Split(CollapseSpaces(text), " "), LAMBDA w : w # <<>>)
    IN  IF /\ Len(ws) = 3 /\ AllDigits(ws[1]) /\ MonthOf(ws[2]) # 0
           /\ AllDigits(ws[3])
        THEN LocalMidnight(ParseNat(ws[3]), MonthOf(ws[2]), ParseNat(ws[1]), tz)
        ELSE IF /\ Len(ws) = 3 /\ MonthOf(ws[1]) # 0
                /\ AllDigits(DropComma(ws[2])) /\ AllDigits(ws[3])
        THEN LocalMidnight(ParseNat(ws[3]), MonthOf(ws[1]),
                           ParseNat(DropComma(ws[2])), tz)
        ELSE IF /\ Len(ws) = 1 /\ Len(ws[1]) = 10
                /\ ws[1][5] = "-" /\ ws[1][8] = "-"
                /\ AllDigits(SubSeq(ws[1], 1, 4))
                /\ AllDigits(SubSeq(ws[1], 6, 7))
                /\ AllDigits(SubSeq(ws[1], 9, 10))
        THEN UtcMidnight(ParseNat(SubSeq(ws[1], 1, 4)),
                         ParseNat(SubSeq(ws[1], 6, 7)),
                         ParseNat(SubSeq(ws[1], 9, 10)))
        ELSE Invalid

\* date.toISOString().split('T')[0]: the UTC calendar day of the instant t
ISODate(t) ==
    LET c == CivilFromDays(t \div MinutesPerDay)
    IN  Digits(c.y, 4) \o <<"-">> \o Digits(c.m, 2) \o <<"-">> \o Digits(c.d, 2)

NoDate == <<>>

\* the YYYY-MM-DD string, NoDate (null) when the text does not parse
parseDate(dateStr, tz) ==
    LET date == NewDate(Trim(RemoveConnectives(dateStr)), tz)
    IN  IF date.valid THEN ISODate(date.t) ELSE NoDate


-----------------------------------------------------------------------------
(* FieldInjector: the per-type writers.  dom is the writable state of the    *)
(* page, [value, checked, selected]; a writer yields the outcome of the call *)
(* ("ok", "fail", or "throw" when an exception leaves it), whether it caught *)
(* an exception, and the dom it leaves behind.                               *)

Dom == [value |-> value, checked |-> checked, selected |-> selected]

Ok(dom)     == [outcome |-> "ok",    caught |-> FALSE, dom |-> dom]
Fail(dom)   == [outcome |-> "fail",  caught |-> FALSE, dom |-> dom]
Throw(dom)  == [outcome |-> "throw", caught |-> FALSE, dom |-> dom]
Caught(dom) == [outcome |-> "fail",  caught |-> TRUE,  dom |-> dom]

\* the body alone, its exception left to the caller
NoCatch(r) == r

\* try { ... } catch { return false }
TryCatch(r) == IF r.outcome = "throw" THEN Caught(r.dom) ELSE r

\* a cut one character short of maxLength
TruncateShort(content, maxLength) ==
    IF maxLength > 0 /\ Len(content) >= maxLength
    THEN SubSeq(content, 1, maxLength - 1)
    ELSE content

\* content.substring(0, maxLength) when maxLength > 0 and content is longer
Truncate(content, maxLength) ==
    IF maxLength > 0 /\ Len(content) > maxLength
    THEN SubSeq(content, 1, maxLength)
    ELSE content

injectTextInput(e, content, dom) ==
    Ok([dom EXCEPT !.value[e] = Truncate(content, doc[e].maxLength)])

\* the content assigned whole, whatever maxLength says
injectTextareaWhole(e, content, dom) ==
    Ok([dom EXCEPT !.value[e] = content])

injectTextarea(e, content, dom) ==
    Ok([dom EXCEPT !.value[e] = Truncate(content, doc[e].maxLength)])

\* the comparison without the option's value
OptionMatchesText(option, normalizedContent) ==
    LET optionText == Trim(ToLowerCase(option.text))
    IN  \/ Includes(optionText, normalizedContent)
        \/ Includes(normalizedContent, optionText)

OptionMatches(option, normalizedContent) ==
    LET optionText  == Trim(ToLowerCase(option.text))
        optionValue == Trim(ToLowerCase(option.value))
    IN  \/ Includes(optionText, normalizedContent)
        \/ Includes(normalizedContent, optionText)
        \/ optionValue = normalizedContent

injectSelect(e, content, dom) ==
    LET normalizedContent == Trim(ToLowerCase(content))
        hits == {k \in DOMAIN doc[e].options :
                    OptionMatches(doc[e].options[k], normalizedContent)}
        k1   == CHOOSE k \in hits : \A j \in hits : k <= j
    IN  IF hits = {} THEN Fail(dom)
        ELSE Ok([dom EXCEPT !.selected[e] =
                    IF doc[e].type = "select-multiple" THEN @ \cup {k1}
                    ELSE {k1}])

sYes == <<"y","e","s">>
sTrue == <<"t","r","u","e">>
sChecked == <<"c","h","e","c","k","e","d">>
sAgree == <<"a","g","r","e","e">>
Affirmative == {sYes, sTrue, <<"1">>, sChecked, sOn, sAgree}

\* the content compared without toLowerCase()
injectCheckboxCaseSensitive(e, content, dom) ==
    Ok([dom EXCEPT !.checked[e] = Trim(content) \in Affirmative])

injectCheckbox(e, content, dom) ==
    Ok([dom EXCEPT !.checked[e] = Trim(ToLowerCase(content)) \in Affirmative])

IsRadio(e) == doc[e].tag = "INPUT" /\ doc[e].type = "radio"

\* form.querySelectorAll(`input[type="radio"][name="${name}"]`), form being
\* radio.form || document
radioGroup(e) ==
    LET form == OwnerForm(e)
    IN  Ascending({r \in Elems :
            /\ IsRadio(r)
            /\ doc[r].name = doc[e].name
            /\ (form = 0 \/ form \in doc[r].forms)})

findRadioLabel(r) ==
    IF doc[r].id # <<>> /\ doc[r].labelFor # <<>> THEN Trim(doc[r].labelFor)
    ELSE IF doc[r].wrapLabel # <<>> THEN Trim(doc[r].wrapLabel)
    ELSE IF doc[r].nextText # <<>> THEN Trim(doc[r].nextText)
    ELSE doc[r].valueAttr

RadioThrows(e) ==
    \/ BadSelectorText(doc[e].name)
    \/ \E r \in Range(radioGroup(e)) : BadSelectorText(doc[r].id)

RadioMatches(r, normalizedContent) ==
    LET normalizedLabel == Trim(ToLowerCase(findRadioLabel(r)))
    IN  \/ Includes(normalizedLabel, normalizedContent)
        \/ Includes(normalizedContent, normalizedLabel)
        \/ ToLowerCase(doc[r].valueAttr) = normalizedContent

\* radioButton.checked = true: the browser unchecks the other buttons of the
\* button's group (same name, same form owner)
CheckRadio(r, chk) ==
    [x \in DOMAIN chk |->
        IF x = r THEN TRUE
        ELSE IF /\ IsRadio(x) /\ doc[r].name # <<>>
                /\ doc[x].name = doc[r].name /\ OwnerForm(x) = OwnerForm(r)
        THEN FALSE
        ELSE chk[x]]

\* the first button of the group that matches, 0 when none does
RadioTarget(e, content) ==
    LET hits == {k \in DOMAIN radioGroup(e) :
                    RadioMatches(radioGroup(e)[k], Trim(ToLowerCase(content)))}
    IN  IF hits = {} THEN 0
        ELSE radioGroup(e)[CHOOSE k \in hits : \A j \in hits : k <= j]

\* the body of injectRadio's try block
RadioBody(e, content, dom) ==
    IF RadioThrows(e) THEN Throw(dom)
    ELSE IF RadioTarget(e, content) = 0 THEN Fail(dom)
    ELSE Ok([dom EXCEPT !.checked = CheckRadio(RadioTarget(e, content), @)])

injectRadio(e, content, dom) == TryCatch(RadioBody(e, content, dom))

injectDate(e, content, dom) ==
    IF parseDate(content, tzOffset) # NoDate
    THEN Ok([dom EXCEPT !.value[e] = parseDate(content, tzOffset)])
    ELSE Fail(dom)

\* content.match(/\d+(\.\d+)?/): [int, frac] digit strings of the first
\* numeric token, int = <<>> when there is none
NumberMatch(content) ==
    LET n  == Len(content)
        ds == {i \in 1..n : IsDigit(content[i])}
        a  == CHOOSE i \in ds : \A j \in ds : i <= j
        endOfDigits(i) == CHOOSE b \in i..n :
                             /\ \A j \in i..b : IsDigit(content[j])
                             /\ (b = n \/ ~IsDigit(content[b + 1]))
        b  == endOfDigits(a)
        hasFrac == b + 2 <= n /\ content[b + 1] = "." /\ IsDigit(content[b + 2])
    IN  IF ds = {} THEN [int |-> <<>>, frac |-> <<>>]
        ELSE [int  |-> SubSeq(content, a, b),
              frac |-> IF hasFrac THEN SubSeq(content, b + 2, endOfDigits(b + 2))
                       ELSE <<>>]

\* the fraction digits without trailing zeros
StripZeros(f) ==
    LET nz == {i \in DOMAIN f : f[i] # "0"}
    IN  IF nz = {} THEN <<>>
        ELSE SubSeq(f, 1, CHOOSE i \in nz : \A j \in nz : j <= i)

\* parseFloat(token).toString()
NumberToString(m) ==
    Digits(ParseNat(m.int), 1) \o
    (IF StripZeros(m.frac) = <<>> THEN <<>> ELSE <<".">> \o StripZeros(m.frac))

\* number < parseFloat(input.min), number > parseFloat(input.max); the bounds
\* are whole numbers here
BelowMin(m, el) == el.hasMin /\ ParseNat(m.int) < el.min
AboveMaxOfWholePart(m, el) == el.hasMax /\ ParseNat(m.int) > el.max

AboveMax(m, el) ==
    el.hasMax /\ (\/ ParseNat(m.int) > el.max
                  \/ (ParseNat(m.int) = el.max /\ StripZeros(m.frac) # <<>>))

\* the number assigned before it is compared with min and max
injectNumberWriteFirst(e, content, dom) ==
    LET m == NumberMatch(content)
        w == [dom EXCEPT !.value[e] = NumberToString(m)]
    IN  IF m.int = <<>> THEN Fail(dom)
        ELSE IF BelowMin(m, doc[e]) \/ AboveMax(m, doc[e]) THEN Fail(w)
        ELSE Ok(w)

injectNumber(e, content, dom) ==
    LET m == NumberMatch(content)
    IN  IF m.int = <<>> THEN Fail(dom)
        ELSE IF BelowMin(m, doc[e]) \/ AboveMax(m, doc[e]) THEN Fail(dom)
        ELSE Ok([dom EXCEPT !.value[e] = NumberToString(m)])

isElementInteractable(e) ==
    /\ doc[e].display # "none"
    /\ doc[e].visibility # "hidden"
    /\ ~doc[e].disabled
    /\ ~doc[e].readOnly

\* the switch of injectSingleField
InjectByType(field, content, dom) ==
    LET e == field.element IN
    CASE field.type \in {"text", "email", "password", "phone", "url", "search"}
             -> injectTextInput(e, content, dom)
      [] field.type = "textarea" -> injectTextarea(e, content, dom)
      [] field.type \in {"select-one", "select-multiple"}
             -> injectSelect(e, content, dom)
      [] field.type = "checkbox" -> injectCheckbox(e, content, dom)
      [] field.type = "radio"    -> injectRadio(e, content, dom)
      [] field.type \in {"date", "datetime"} -> injectDate(e, content, dom)
      [] field.type = "number"   -> injectNumber(e, content, dom)
      [] OTHER                   -> Fail(dom)

\* injectSingleField after the focus delay: the switch inside its try block
WriteField(field, content, dom) == TryCatch(InjectByType(field, content, dom))


-----------------------------------------------------------------------------
(* FieldInjector.injectAnswers and injectSingleField as steps.  A batch is   *)
(* one invocation of injectAnswers; it is suspended only in the focus delay  *)
(* of injectSingleField.                                                     *)

FocusDelay     == 100     \* setTimeout(resolve, 100)
HighlightDelay == 2000    \* setTimeout(..., 2000)
MaxBatches     == 2       \* invocations of injectAnswers in one run

successBorder    == "2px solid #10b981"
successBoxShadow == "0 0 0 3px rgba(16, 185, 129, 0.1)"

\* the loop of injectAnswers from answer b.i on, up to the next focus delay
\* (pc "wait", the matched field in b.field) or to the end of the loop
\* (pc "done"): an unmatched answer is dropped, a field that is not
\* interactable is a failed attempt.  b.log keeps what became of each answer:
\* "unmatched", "pending" (in its focus delay), "ok", "fail" (false returned),
\* "caught" (false returned from a catch) or "throw" (an exception got out).
RECURSIVE Advance(_)
Advance(b) ==
    IF b.i > Len(b.answers) THEN [b EXCEPT !.pc = "done"]
    ELSE LET m == findMatchingField(b.answers[b.i].fieldLabel, b.fields)
         IN  IF m = NoField
             THEN Advance([b EXCEPT !.i = @ + 1,
                                    !.log = Append(@, "unmatched")])
             ELSE IF doc[m.element].noStyle
             \* style.display of a missing style: the catch of injectSingleField
             THEN Advance([b EXCEPT !.i = @ + 1,
                                    !.totalAttempts = @ + 1,
                                    !.log = Append(@, "caught")])
             ELSE IF ~isElementInteractable(m.element)
             THEN Advance([b EXCEPT !.i = @ + 1,
                                    !.totalAttempts = @ + 1,
                                    !.log = Append(@, "fail")])
             ELSE [b EXCEPT !.pc = "wait", !.field = m,
                            !.totalAttempts = @ + 1,
                            !.log = Append(@, "pending")]

NewBatch(id, answers, fields) ==
    [id |-> id, answers |-> answers, fields |-> fields, i |-> 1, pc |-> "run",
     successCount |-> 0, totalAttempts |-> 0, field |-> NoField, log |-> <<>>]

NoBatch == NewBatch(0, <<>>, <<>>)

\* this.injectedFields.set(element, content): a Map keeps insertion order
RegistrySet(reg, e, content) ==
    IF \E k \in DOMAIN reg : reg[k].element = e
    THEN [k \in DOMAIN reg |->
             IF reg[k].element = e THEN [reg[k] EXCEPT !.value = content]
             ELSE reg[k]]
    ELSE Append(reg, [element |-> e, value |-> content])

Event(type, e, override) ==
    [type |-> type, on |-> e, bubbles |-> TRUE, cancelable |-> TRUE,
     target |-> e, targetOverridden |-> override]

triggerChangeEvents(e) ==
    << Event("input", e, FALSE), Event("change", e, FALSE),
       Event("blur", e, FALSE), Event("input", e, TRUE) >>

\* addSuccessHighlight: the timer remembers the style it found (and here the
\* batch that set it)
HighlightTimer(e, st, id) ==
    [element |-> e, originalBorder |-> st[e].border,
     originalBoxShadow |-> st[e].boxShadow, batch |-> id]

Highlighted(st, e) ==
    [st EXCEPT ![e] = [border |-> successBorder, boxShadow |-> successBoxShadow]]

\* showInjectionFeedback's message
Feedback(successCount, totalAttempts) ==
    IF successCount = totalAttempts THEN "all" ELSE "partial"

\* the record of the last step of a batch: the write it made, and when
\* injectAnswers returned in it, the value returned and the batch as it ended
NoStep == [op |-> "none", element |-> 0, content |-> <<>>, outcome |-> "none",
           caught |-> FALSE, returned |-> FALSE, result |-> FALSE,
           batch |-> NoBatch, feedback |-> "none"]

\* a return of totalAttempts > 0 instead
ReturnedIfAttempted(step, b) ==
    [step EXCEPT !.returned = TRUE, !.result = b.totalAttempts > 0,
                 !.batch = b,
                 !.feedback = Feedback(b.successCount, b.totalAttempts)]

\* return successCount > 0, after showInjectionFeedback
Returned(step, b) ==
    [step EXCEPT !.returned = TRUE, !.result = b.successCount > 0,
                 !.batch = b,
                 !.feedback = Feedback(b.successCount, b.totalAttempts)]


-----------------------------------------------------------------------------
(* The pages and assistant answers of the runs checked *)

tGender == <<"g","e","n","d","e","r">>
tMale == <<"m","a","l","e">>
tFemale == <<"f","e","m","a","l","e">>
tMaleText == <<" ","M","a","l","e">>
tFemaleText == <<" ","F","e","m","a","l","e">>
tGenderLabel == <<"G","e","n","d","e","r">>
tNm == <<"n","m">>
tFullNameLabel == <<"F","u","l","l"," ","N","a","m","e",":">>
tFullName == <<"F","u","l","l"," ","N","a","m","e">>
tComments == <<"C","o","m","m","e","n","t","s">>
tJanet == <<"J","a","n","e","t">>
tHello == <<"h","e","l","l","o">>
tAl == <<"A","l">>
tBo == <<"B","o">>
tStartDateName == <<"s","t","a","r","t","_","d","a","t","e">>
tStartDate == <<"S","t","a","r","t"," ","d","a","t","e">>
tOn5March2024 == <<"o","n"," ","5"," ","M","a","r","c","h"," ","2","0","2","4">>
tGuests == <<"g","u","e","s","t","s">>
tGuestsLabel == <<"G","u","e","s","t","s">>
t150Items == <<"1","5","0"," ","i","t","e","m","s">>
t7Guests == <<"0","0","7"," ","g","u","e","s","t","s">>
tAgree == <<"a","g","r","e","e">>
tAgreeLabel == <<"A","g","r","e","e">>
tYesAnswer == <<"Y","e","s">>
tPlanName == <<"p","\"","1">>
tPlan == <<"P","l","a","n">>
tBasic == <<"b","a","s","i","c">>
tCity == <<"C","i","t","y">>
tOslo == <<"O","s","l","o">>
tYourCity == <<"Y","o","u","r"," ","c","i","t","y">>
tNews == <<"n","e","w","s">>
tNewsLabel == <<"N","e","w","s">>
tYesText == <<" ","Y","e","s">>
tNoText == <<" ","N","o">>
tYesValue == <<"y","e","s">>
tNoValue == <<"n","o">>
tCountry == <<"c","o","u","n","t","r","y">>
tCountryLabel == <<"C","o","u","n","t","r","y">>
tNorway == <<"N","o","r","w","a","y">>
tNo == <<"N","O">>
tSweden == <<"S","w","e","d","e","n">>
tSe == <<"S","E">>
tNorwayAnswer == <<"n","o","r","w","a","y">>
tVolume == <<"v","o","l","u","m","e">>
tVolumeLabel == <<"V","o","l","u","m","e">>
t5 == <<"5">>
t20240305 == <<"2","0","2","4","-","0","3","-","0","5">>

Answer(label, text) == [fieldLabel |-> label, answer |-> text]

\* <form>: two radio buttons name="gender", each followed by its text
GenderPage == <<
    [NoElem EXCEPT !.type = "radio", !.name = tGender, !.valueAttr = tMale,
                   !.nextText = tMaleText, !.forms = {1}],
    [NoElem EXCEPT !.type = "radio", !.name = tGender, !.valueAttr = tFemale,
                   !.nextText = tFemaleText, !.forms = {1}] >>

\* <form>: a text input with a <label for>, and a textarea inside a <label>
ContactPage == <<
    [NoElem EXCEPT !.id = tNm, !.labelFor = tFullNameLabel, !.maxLength = 4,
                   !.forms = {1}, !.dynamic = TRUE],
    [NoElem EXCEPT !.tag = "TEXTAREA", !.type = "textarea",
                   !.wrapLabel = tComments, !.maxLength = 3, !.forms = {1}] >>

\* standalone date, number (max=100) and checkbox inputs
BookingPage == <<
    [NoElem EXCEPT !.type = "date", !.name = tStartDateName],
    [NoElem EXCEPT !.type = "number", !.name = tGuests, !.hasMax = TRUE,
                   !.max = 100],
    [NoElem EXCEPT !.type = "checkbox", !.name = tAgree] >>

\* a date input alone
DatePage == << [NoElem EXCEPT !.type = "date", !.name = tStartDateName] >>

\* getTimezoneOffset() of the host, as minutes east of UTC
TzOffsets == {0 - 480, 0, 60, 345}

\* a radio button whose name holds a double quote, and a text input
QuotePage == <<
    [NoElem EXCEPT !.type = "radio", !.name = tPlanName, !.ariaLabel = tPlan,
                   !.valueAttr = tBasic],
    [NoElem EXCEPT !.ariaLabel = tCity] >>

\* radio buttons Yes / No, a select and a range input
SurveyPage == <<
    [NoElem EXCEPT !.type = "radio", !.name = tNews, !.valueAttr = tYesValue,
                   !.nextText = tYesText, !.forms = {1}],
    [NoElem EXCEPT !.type = "radio", !.name = tNews, !.valueAttr = tNoValue,
                   !.nextText = tNoText, !.forms = {1}],
    [NoElem EXCEPT !.tag = "SELECT", !.type = "select-one", !.name = tCountry,
                   !.options = << [text |-> tSweden, value |-> tSe],
                                  [text |-> tNorway, value |-> tNo] >>],
    [NoElem EXCEPT !.type = "range", !.name = tVolume] >>

Sessions == {
    [doc |-> GenderPage, tz |-> 0,
     ai  |-> { <<Answer(tGenderLabel, tFemale)>> }],
    [doc |-> ContactPage, tz |-> 0,
     ai  |-> { <<Answer(tFullName, tJanet), Answer(tComments, tHello)>> }],
    [doc |-> BookingPage, tz |-> 0,
     ai  |-> { <<Answer(tStartDate, tOn5March2024),
                 Answer(tGuestsLabel, t7Guests),
                 Answer(tAgreeLabel, tYesAnswer)>>,
               <<Answer(tGuestsLabel, t150Items)>> }],
    [doc |-> QuotePage, tz |-> 0,
     ai  |-> { <<Answer(tPlan, tBasic), Answer(tCity, tOslo)>>,
               <<Answer(tCity, tAl), Answer(tYourCity, tBo)>> }],
    [doc |-> SurveyPage, tz |-> 0,
     ai  |-> { <<Answer(tNewsLabel, tNoValue),
                 Answer(tCountryLabel, tNorwayAnswer),
                 Answer(tVolumeLabel, t5)>> }] }
    \cup { [doc |-> DatePage, tz |-> z,
            ai  |-> { <<Answer(tStartDate, tOn5March2024)>> }] : z \in TzOffsets }

-----------------------------------------------------------------------------
(* The state after construction *)

NoStyle == [border |-> "", boxShadow |-> ""]

\* a select-one shows its first option
InitialSelected(el) ==
    IF el.tag = "SELECT" /\ el.type = "select-one" /\ el.options # <<>>
    THEN {1} ELSE {}

NoContext == [set |-> FALSE, fields |-> <<>>]

InitSession(sn) ==
    /\ doc = sn.doc
    /\ tzOffset = sn.tz
    /\ aiAnswers = sn.ai
    /\ value = [e \in DOMAIN sn.doc |-> sn.doc[e].valueAttr]
    /\ checked = [e \in DOMAIN sn.doc |-> FALSE]
    /\ selected = [e \in DOMAIN sn.doc |-> InitialSelected(sn.doc[e])]
    /\ style = [e \in DOMAIN sn.doc |-> NoStyle]
    /\ detectedFields = Scan
    /\ formFields = NoContext
    /\ generatedAnswers = <<>>
    /\ applyDisabled = FALSE
    /\ batches = <<>>
    /\ started = 0
    /\ injectedFields = <<>>
    /\ timers = <<>>
    /\ dispatched = <<>>
    /\ last = NoStep

Init == \E sn \in Sessions : InitSession(sn)


-----------------------------------------------------------------------------
(* Steps *)

Step(op) == [NoStep EXCEPT !.op = op]

\* a scan that also empties the injector's registry
DetectFieldsClearingRegistry ==
    /\ detectedFields' = IF ScanThrows THEN ScanPartial ELSE Scan
    /\ injectedFields' = <<>>
    /\ last' = [Step("detectFields") EXCEPT
                    !.outcome = IF ScanThrows THEN "throw" ELSE "none"]
    /\ dispatched' = <<>>
    /\ UNCHANGED <<doc, tzOffset, value, checked, style, formFields,
                   generatedAnswers, applyDisabled, batches, started, selected,
                   timers, aiAnswers>>

\* FormFieldDetector.detectFields()
DetectFields ==
    /\ detectedFields' = IF ScanThrows THEN ScanPartial ELSE Scan
    /\ last' = [Step("detectFields") EXCEPT
                    !.outcome = IF ScanThrows THEN "throw" ELSE "none"]
    /\ dispatched' = <<>>
    /\ UNCHANGED <<doc, tzOffset, value, checked, style, formFields,
                   generatedAnswers, applyDisabled, batches, started, selected,
                   injectedFields, timers, aiAnswers>>

\* FormFieldDetector.refresh()
Refresh ==
    /\ detectedFields' = IF ScanThrows THEN ScanPartial ELSE Scan
    /\ last' = [Step("refresh") EXCEPT
                    !.outcome = IF ScanThrows THEN "throw" ELSE "none"]
    /\ dispatched' = <<>>
    /\ UNCHANGED <<doc, tzOffset, value, checked, style, formFields,
                   generatedAnswers, applyDisabled, batches, started, selected,
                   injectedFields, timers, aiAnswers>>

\* the view-mode analysis ends: its fresh scan becomes the chat panel's context
\* (scanPage catches a scan that throws and announces nothing)
ViewModeComplete ==
    /\ ~ScanThrows
    /\ formFields' = [set |-> TRUE, fields |-> Scan]
    /\ last' = NoStep
    /\ dispatched' = <<>>
    /\ UNCHANGED <<doc, tzOffset, value, checked, style, detectedFields,
                   generatedAnswers, applyDisabled, batches, started, selected,
                   injectedFields, timers, aiAnswers>>

\* a script of the page disables or enables one of its elements
PageToggle(e) ==
    /\ doc[e].dynamic
    /\ doc' = [doc EXCEPT ![e].disabled = ~@]
    /\ last' = NoStep
    /\ dispatched' = <<>>
    /\ UNCHANGED <<tzOffset, value, checked, style, detectedFields, formFields,
                   generatedAnswers, applyDisabled, batches, started, selected,
                   injectedFields, timers, aiAnswers>>

\* parseFormAnswersFromResponse keeps an answer whose label is contained in, or
\* contains, the label of some field of the context, and drops a repeated label
UiMatches(label, fields) ==
    \E k \in DOMAIN fields :
        \/ Includes(ToLowerCase(fields[k].label), ToLowerCase(label))
        \/ Includes(ToLowerCase(label), ToLowerCase(fields[k].label))

parseFormAnswers(answers, fields) ==
    SeqOfIdx(answers, {k \in DOMAIN answers :
        /\ UiMatches(answers[k].fieldLabel, fields)
        /\ \A j \in 1..(k - 1) :
               ToLowerCase(answers[j].fieldLabel)
                   # ToLowerCase(answers[k].fieldLabel)})

\* checkForFormFillingResponse -> showApplySection(answers)
ShowApplySection(answers) ==
    /\ formFields.set
    /\ Len(formFields.fields) > 0
    /\ parseFormAnswers(answers, formFields.fields) # <<>>
    /\ generatedAnswers' = parseFormAnswers(answers, formFields.fields)
    /\ last' = NoStep
    /\ dispatched' = <<>>
    /\ UNCHANGED <<doc, tzOffset, value, checked, style, detectedFields,
                   formFields, applyDisabled, batches, started, selected,
                   injectedFields, timers, aiAnswers>>

\* the button left enabled
ButtonLeftEnabled == FALSE

\* applyBtn.disabled while the batch runs
LoadingState == TRUE

\* the rest of handleApplyFormAnswers once injectAnswers has returned success
AfterBatch(success) ==
    /\ applyDisabled' = FALSE
    /\ generatedAnswers' = IF success THEN <<>> ELSE generatedAnswers

\* a click on the apply button: handleApplyFormAnswers up to the first focus
\* delay of the batch (or to its end when no answer reaches one)
ClickApply ==
    /\ ~applyDisabled
    /\ started < MaxBatches
    /\ dispatched' = <<>>
    /\ IF generatedAnswers = <<>> \/ ~formFields.set
       THEN /\ last' = Step("apply:nothing")
            /\ UNCHANGED <<applyDisabled, generatedAnswers, batches, started>>
       ELSE LET b == Advance(NewBatch(started + 1, generatedAnswers,
                                      formFields.fields))
            IN  /\ started' = started + 1
                /\ IF b.pc = "done"
                   THEN /\ last' = Returned(Step("apply"), b)
                        /\ AfterBatch(b.successCount > 0)
                        /\ UNCHANGED batches
                   ELSE /\ last' = Step("apply")
                        /\ applyDisabled' = LoadingState
                        /\ batches' = Append(batches, b)
                        /\ UNCHANGED generatedAnswers
    /\ UNCHANGED <<doc, tzOffset, value, checked, style, detectedFields,
                   formFields, selected, injectedFields, timers, aiAnswers>>

Logged(r) == IF r.caught THEN "caught" ELSE r.outcome

Without(seq, k) == SeqOfIdx(seq, DOMAIN seq \ {k})

\* what injectSingleField's write r for batch k leaves, b1 being the batch as
\* the loop of injectAnswers then runs on to the next focus delay or to its end
AfterWrite(k, r, b1) ==
    LET b  == batches[k]
        e  == b.field.element
        content == b.answers[b.i].answer
        ok == r.outcome = "ok"
        w  == [Step("write") EXCEPT !.element = e, !.content = content,
                                    !.outcome = r.outcome,
                                    !.caught = r.caught]
    IN  /\ value' = r.dom.value
        /\ checked' = r.dom.checked
        /\ selected' = r.dom.selected
        /\ dispatched' = IF ok THEN triggerChangeEvents(e) ELSE <<>>
        /\ style' = IF ok THEN Highlighted(style, e) ELSE style
        /\ timers' = IF ok THEN Append(timers, HighlightTimer(e, style, b.id))
                     ELSE timers
        /\ injectedFields' = IF ok THEN RegistrySet(injectedFields, e, content)
                             ELSE injectedFields
        /\ IF r.outcome = "throw"
           \* the catch of injectAnswers: return false
           THEN /\ last' = [w EXCEPT !.returned = TRUE, !.result = FALSE,
                                     !.batch = [b EXCEPT !.log[Len(b.log)] =
                                                             Logged(r)]]
                /\ batches' = Without(batches, k)
                /\ AfterBatch(FALSE)
           ELSE IF b1.pc = "done"
           THEN /\ last' = Returned(w, b1)
                /\ batches' = Without(batches, k)
                /\ AfterBatch(b1.successCount > 0)
           ELSE /\ last' = w
                /\ batches' = [batches EXCEPT ![k] = b1]
                /\ UNCHANGED <<applyDisabled, generatedAnswers>>

\* the focus delay of batch k is over: injectSingleField writes the field,
\* and injectAnswers runs on to the next focus delay or returns
FocusDelayOver(k) ==
    /\ k \in DOMAIN batches
    /\ LET b == batches[k]
           r == WriteField(b.field, b.answers[b.i].answer, Dom)
       IN  AfterWrite(k, r,
               Advance([b EXCEPT
                           !.i = @ + 1,
                           !.successCount = IF r.outcome = "ok" THEN @ + 1
                                            ELSE @,
                           !.log[Len(b.log)] = Logged(r)]))
    /\ UNCHANGED <<doc, tzOffset, detectedFields, formFields, started, aiAnswers>>

\* a batch of fewer than HighlightDelay / FocusDelay answers returns before
\* the timer of its first highlight is due
TimerDue(t) ==
    \A k \in DOMAIN batches :
        batches[k].id = t.batch
            => Len(batches[k].answers) * FocusDelay >= HighlightDelay

\* the oldest highlight timer fires
HighlightTimeout ==
    /\ timers # <<>>
    /\ TimerDue(Head(timers))
    /\ style' = [style EXCEPT ![Head(timers).element] =
                    [border    |-> Head(timers).originalBorder,
                     boxShadow |-> Head(timers).originalBoxShadow]]
    /\ timers' = Tail(timers)
    /\ last' = NoStep
    /\ dispatched' = <<>>
    /\ UNCHANGED <<doc, tzOffset, value, checked, detectedFields, formFields,
                   generatedAnswers, applyDisabled, batches, started, selected,
                   injectedFields, aiAnswers>>

\* clearAllInjections(): what it leaves in the elements of the registry
RECURSIVE ClearedDom(_,_)
ClearedDom(reg, dom) ==
    IF reg = <<>> THEN dom
    ELSE LET e == Head(reg).element
         IN  ClearedDom(Tail(reg),
                 IF doc[e].tag \in {"INPUT", "TEXTAREA"}
                 THEN [dom EXCEPT !.value[e] = <<>>]
                 ELSE IF doc[e].tag = "SELECT"
                 THEN [dom EXCEPT !.selected[e] =
                          IF doc[e].options = <<>> THEN {} ELSE {1}]
                 ELSE dom)

RECURSIVE ClearedEvents(_)
ClearedEvents(reg) ==
    IF reg = <<>> THEN <<>>
    ELSE triggerChangeEvents(Head(reg).element) \o ClearedEvents(Tail(reg))

ClearAllInjections ==
    /\ value' = ClearedDom(injectedFields, Dom).value
    /\ checked' = ClearedDom(injectedFields, Dom).checked
    /\ selected' = ClearedDom(injectedFields, Dom).selected
    /\ dispatched' = ClearedEvents(injectedFields)
    /\ injectedFields' = <<>>
    /\ last' = Step("clearAllInjections")
    /\ UNCHANGED <<doc, tzOffset, style, detectedFields, formFields,
                   generatedAnswers, applyDisabled, batches, started, timers,
                   aiAnswers>>

Next ==
    \/ ViewModeComplete
    \/ \E e \in Elems : PageToggle(e)
    \/ \E answers \in aiAnswers : ShowApplySection(answers)
    \/ ClickApply
    \/ \E k \in DOMAIN batches : FocusDelayOver(k)
    \/ HighlightTimeout

Spec == Init /\ [][Next]_vars

-----------------------------------------------------------------------------
(* The operations of the two classes that nothing in the extension calls:   *)
(* FormFieldDetector.detectFields() on a long-lived detector, refresh() and *)
(* FieldInjector.clearAllInjections(), on a page with fields a scan skips   *)

tEmail == <<"e","m","a","i","l">>
tEmailLabel == <<"E","m","a","i","l">>
tRef == <<"r","e","f">>
tCsrfToken == <<"C","S","R","F","_","T","o","k","e","n">>
tCaptchaBox == <<"r","e","C","a","p","t","c","h","a","B","o","x">>
tNick == <<"n","i","c","k">>
tAtSign == <<"a","@","b">>

\* an email input, a hidden input, an input named CSRF_Token, a textarea with
\* id reCaptchaBox and a disabled input
SignupPage == <<
    [NoElem EXCEPT !.type = "email", !.name = tEmail],
    [NoElem EXCEPT !.type = "hidden", !.name = tRef],
    [NoElem EXCEPT !.name = tCsrfToken],
    [NoElem EXCEPT !.tag = "TEXTAREA", !.type = "textarea", !.id = tCaptchaBox],
    [NoElem EXCEPT !.name = tNick, !.disabled = TRUE, !.dynamic = TRUE] >>

tField == <<"F","i","e","l","d">>
tAbc == <<"a","b","c">>
tSearch == <<"S","e","a","r","c","h">>
tFirstName == <<"f","i","r","s","t","_","n","a","m","e">>
tFirstNameLabel == <<"F","i","r","s","t"," ","n","a","m","e">>
tGo == <<"g","o">>
tImg == <<"i","m","g">>
tBtn == <<"b","t","n">>
tRst == <<"r","s","t">>
tQuoteId == <<"a","\"","b">>
tX == <<"x">>
tStar == <<" ","*"," ">>

\* a standalone search box; a form nested in a form, holding a text input, a
\* submit and an image button; then standalone: an input a page script enables
\* whose computed style cannot be read, a button, a reset, an input whose id
\* holds a double quote, and an input whose <label for> reads " * "
CatalogPage == <<
    [NoElem EXCEPT !.type = "search", !.placeholder = tSearch],
    [NoElem EXCEPT !.name = tFirstName, !.forms = {1, 2}],
    [NoElem EXCEPT !.type = "submit", !.name = tGo, !.forms = {1}],
    [NoElem EXCEPT !.type = "image", !.name = tImg, !.forms = {1, 2}],
    [NoElem EXCEPT !.name = tNick, !.disabled = TRUE, !.noStyle = TRUE,
                   !.dynamic = TRUE],
    [NoElem EXCEPT !.type = "button", !.name = tBtn],
    [NoElem EXCEPT !.type = "reset", !.name = tRst],
    [NoElem EXCEPT !.id = tQuoteId, !.ariaLabel = tField],
    [NoElem EXCEPT !.id = tX, !.labelFor = tStar, !.placeholder = tYourCity] >>

\* a checkbox a page script enables and disables, and a group of two radio
\* buttons
ConsentPage == <<
    [NoElem EXCEPT !.type = "checkbox", !.name = tAgree, !.dynamic = TRUE],
    [NoElem EXCEPT !.type = "radio", !.name = tNews, !.valueAttr = tYesValue,
                   !.nextText = tYesText],
    [NoElem EXCEPT !.type = "radio", !.name = tNews, !.valueAttr = tNoValue,
                   !.nextText = tNoText] >>

ApiSessions == {
    [doc |-> SignupPage, tz |-> 0,
     ai  |-> { <<Answer(tEmailLabel, tAtSign)>> }],
    [doc |-> CatalogPage, tz |-> 0,
     ai  |-> { <<Answer(tFirstNameLabel, tAbc)>> }] }

InitApi == \E sn \in ApiSessions : InitSession(sn)

NextApi ==
    \/ Next
    \/ DetectFields
    \/ Refresh
    \/ ClearAllInjections

SpecApi == InitApi /\ [][NextApi]_vars

\* clearAllInjections() after a checkbox and a radio group have been written
ClearSessions == {
    [doc |-> ConsentPage, tz |-> 0,
     ai  |-> { <<Answer(tAgreeLabel, tYesAnswer),
                 Answer(tNewsLabel, tYesValue)>>,
               <<Answer(tNewsLabel, tNoValue)>> }] }

InitClear == \E sn \in ClearSessions : InitSession(sn)

NextClear ==
    \/ Next
    \/ ClearAllInjections

SpecClear == InitClear /\ [][NextClear]_vars

-----------------------------------------------------------------------------
(* Single fields: pages of one labelled element each, with one answer for   *)
(* it, run through the same steps                                            *)

tTen == <<"a","b","c","d","e","f","g","h","i","j">>
tTwenty == <<"a","b","c","d","e","f","g","h","i","j","k","l","m","n","o","p","q","r","s","t">>

\* the element alone on its page, labelled by aria-label, and the answers to it
OneField(el, contents) ==
    [doc |-> << [el EXCEPT !.ariaLabel = tField] >>, tz |-> 0,
     ai  |-> { <<Answer(tField, c)>> : c \in contents }]

TextLike == {"text", "email", "password", "tel", "url", "search"}

TextSessions ==
    { OneField([NoElem EXCEPT !.type = "text", !.maxLength = L],
               {tAbc, tTen, tTwenty}) : L \in {0 - 1, 0, 10} }
    \cup { OneField([NoElem EXCEPT !.type = t, !.maxLength = 10], {tTwenty}) :
               t \in TextLike \ {"text"} }
    \cup { OneField([NoElem EXCEPT !.tag = "TEXTAREA", !.type = "textarea",
                                   !.maxLength = L], {tTwenty}) :
               L \in {0 - 1, 10} }

t42 == <<"4","2">>
t1005 == <<"1","0","0",".","5">>
t1000 == <<"1","0","0",".","0"," ","%">>
t49 == <<"4",".","9"," ","k","g">>
tFive == <<"5">>
tNone == <<"n","o","n","e">>

\* number inputs holding 42: with max=100, with min=5 and max=100, without bounds
NumberSessions ==
    { OneField([NoElem EXCEPT !.type = "number", !.valueAttr = t42,
                              !.hasMax = TRUE, !.max = 100],
               {t150Items, t7Guests, t1005, t1000}),
      OneField([NoElem EXCEPT !.type = "number", !.valueAttr = t42,
                              !.hasMin = TRUE, !.min = 5,
                              !.hasMax = TRUE, !.max = 100],
               {t49, tFive, tNone}),
      OneField([NoElem EXCEPT !.type = "number", !.valueAttr = t42],
               {t150Items}) }

tFn == <<"f","n">>
tEm == <<"e","m">>
tEmailAddressStar == <<"E","m","a","i","l"," ","A","d","d","r","e","s","s"," ","*">>
tEmailAddress == <<"E","m","a","i","l"," ","A","d","d","r","e","s","s">>
tCommentsColon == <<"C","o","m","m","e","n","t","s",":">>
tJaneDoe == <<"J","a","n","e"," ","D","o","e">>
tJaneMail == <<"j","a","n","e","@","x",".","c","o","m">>
tSixty == tTwenty \o tTwenty \o tTwenty

\* <form>: Full Name (text), Email Address (email, required) and Comments
\* (textarea, maxlength=50), each with its <label for>
FeedbackPage == <<
    [NoElem EXCEPT !.id = tFn, !.labelFor = tFullName, !.forms = {1}],
    [NoElem EXCEPT !.type = "email", !.id = tEm, !.labelFor = tEmailAddressStar,
                   !.required = TRUE, !.forms = {1}],
    [NoElem EXCEPT !.tag = "TEXTAREA", !.type = "textarea",
                   !.wrapLabel = tCommentsColon, !.maxLength = 50,
                   !.forms = {1}] >>

FeedbackAnswers == << Answer(tFullName, tJaneDoe),
                      Answer(tEmailAddress, tJaneMail),
                      Answer(tComments, tSixty) >>

FormSessions == { [doc |-> FeedbackPage, tz |-> 0, ai |-> {FeedbackAnswers}] }

tFullNameColon == <<"F","u","l","l"," ","N","a","m","e",":">>
tLowerFullName == <<"f","u","l","l"," ","n","a","m","e">>
tUpperFullName == <<"F","U","L","L"," ","N","A","M","E",":">>
tWideFullName == <<"F","u","l","l"," "," "," ","N","a","m","e">>
tDashFullName == <<"F","u","l","l"," ","-"," ","N","a","m","e">>
tParenFullName == <<"(","F","u","l","l"," ","N","a","m","e",")","*">>
tTabFullName == <<"F","u","l","l","\t","N","a","m","e">>

\* the ways the assistant writes the label of the field "Full Name:"
LabelVariants == {tLowerFullName, tUpperFullName, tWideFullName, tDashFullName,
                  tParenFullName, tTabFullName}

LabelSessions ==
    { [doc |-> << [NoElem EXCEPT !.ariaLabel = tFullNameColon] >>, tz |-> 0,
       ai  |-> { <<Answer(v, tAbc)>> : v \in LabelVariants }] }

tMyField == <<"M","y"," ","f","i","e","l","d">>
tNoAnswer == <<"N","o">>
tYesPlease == <<"y","e","s"," ","p","l","e","a","s","e">>
tOnUpper == <<"O","N">>

\* a checkbox, with answers that write it once and answers that write it twice
CheckboxSessions ==
    { [doc |-> << [NoElem EXCEPT !.type = "checkbox", !.ariaLabel = tField] >>,
       tz  |-> 0,
       ai  |-> { <<Answer(tField, tYesAnswer)>>,
                 <<Answer(tField, tYesPlease)>>,
                 <<Answer(tField, tYesAnswer), Answer(tMyField, tNoAnswer)>>,
                 <<Answer(tField, tNoAnswer), Answer(tMyField, tOnUpper)>> }] }

\* fields whose injection fails: types without a writer, a date that does not
\* parse, a select and a radio button that nothing matches, and a text input
\* that a page script disables
FailSessions ==
    { OneField([NoElem EXCEPT !.type = t, !.valueAttr = t42], {tAbc}) :
          t \in {"range", "time", "month", "week", "color", "file"} }
    \cup
    { OneField([NoElem EXCEPT !.type = "date", !.valueAttr = t20240305],
               {tNone}),
      OneField([NoElem EXCEPT !.tag = "SELECT", !.type = "select-one",
                   !.options = << [text |-> tSweden, value |-> tSe],
                                  [text |-> tNorway, value |-> tNo] >>],
               {tAbc}),
      OneField([NoElem EXCEPT !.type = "radio", !.valueAttr = tMale,
                              !.nextText = tMaleText],
               {tAbc}),
      [doc |-> << [NoElem EXCEPT !.ariaLabel = tField, !.valueAttr = t42,
                                 !.dynamic = TRUE] >>,
       tz  |-> 0,
       ai  |-> { <<Answer(tField, tAbc), Answer(tMyField, tTen)>> }] }

tFirstUnderName == <<"f","i","r","s","t","_","_","n","a","m","e">>
tFirst == <<"F","i","r","s","t">>
tNameStarColon == <<"N","a","m","e"," ","*"," ",":">>
tNameWord == <<"N","a","m","e">>

\* an input known by its name first__name alone, and an input whose
\* <label for> reads "Name * :"
DecoratedSessions ==
    { [doc |-> << [NoElem EXCEPT !.name = tFirstUnderName] >>, tz |-> 0,
       ai  |-> { <<Answer(tFirst, tAbc)>> }],
      [doc |-> << [NoElem EXCEPT !.id = tX, !.labelFor = tNameStarColon] >>,
       tz  |-> 0,
       ai  |-> { <<Answer(tNameWord, tAbc)>> }] }

tPickOne == <<"P","i","c","k"," ","o","n","e">>
tNewSweden == <<"N","e","w"," ","S","w","e","d","e","n">>
tNs == <<"N","S">>
tSwedenAnswer == <<"s","w","e","d","e","n">>
tSeAnswer == <<"s","e">>
tFromNorway == <<"G","r","e","e","t","i","n","g","s"," ","f","r","o","m"," ","N","o","r","w","a","y">>

CountryOptions == << [text |-> tPickOne, value |-> <<>>],
                     [text |-> tNorway, value |-> tNo],
                     [text |-> tSweden, value |-> tSe],
                     [text |-> tNewSweden, value |-> tNs] >>

\* a select and a multiple select with the options Pick one, Norway, Sweden
\* and New Sweden
SelectSessions ==
    { OneField([NoElem EXCEPT !.tag = "SELECT", !.type = t,
                              !.options = CountryOptions],
               {tSwedenAnswer, tSeAnswer, tFromNorway, tAbc}) :
          t \in {"select-one", "select-multiple"} }

tTwoToFourCapitals == <<"[","A","-","Z","]","{","2",",","4","}">>
tThreeDigits == <<"[","0","-","9","]","{","3","}">>
tOneOrMore == <<"[","a","-","z","]","{","1",",","}">>

\* text inputs with a pattern attribute, with and without maxLength, and a
\* textarea carrying one
PatternSessions ==
    { OneField([NoElem EXCEPT !.pattern = p], {tAbc, tTen}) :
          p \in {tTwoToFourCapitals, tThreeDigits, tOneOrMore} }
    \cup { OneField([NoElem EXCEPT !.pattern = tThreeDigits, !.maxLength = 10],
                    {tTwenty}),
           OneField([NoElem EXCEPT !.tag = "TEXTAREA", !.type = "textarea",
                                   !.pattern = tThreeDigits], {tTen}) }

FieldSessions ==
    PatternSessions \cup TextSessions \cup NumberSessions \cup FormSessions \cup LabelSessions
    \cup CheckboxSessions \cup FailSessions \cup DecoratedSessions
    \cup SelectSessions

InitFields == \E sn \in FieldSessions : InitSession(sn)

SpecFields == InitFields /\ [][Next]_vars

-----------------------------------------------------------------------------
(* The matcher: injectAnswers called with the detector's catalog, so that    *)
(* answer labels reach findMatchingField that the chat panel would not pass  *)

tNameLabel == <<"N","a","m","e">>
tNam == <<"N","a","m">>
tShipping == <<"S","h","i","p","p","i","n","g"," ","a","d","d","r","e","s","s">>
tBilling == <<"B","i","l","l","i","n","g"," ","a","d","d","r","e","s","s">>
tPhoneHomeOffice == <<"P","h","o","n","e"," ","n","u","m","b","e","r"," ","h","o","m","e"," ","o","f","f","i","c","e">>
tCellPhoneHome == <<"C","e","l","l"," ","n","u","m","b","e","r"," ","p","h","o","n","e"," ","h","o","m","e">>
tHomePhoneCell == <<"H","o","m","e"," ","p","h","o","n","e"," ","n","u","m","b","e","r"," ","c","e","l","l">>
tHomePhone == <<"H","o","m","e"," ","p","h","o","n","e"," ","n","u","m","b","e","r">>
tToBe == <<"T","o"," ","b","e">>

\* text inputs labelled "First name" and "Name"
NamesPage == <<
    [NoElem EXCEPT !.ariaLabel = tFirstNameLabel],
    [NoElem EXCEPT !.ariaLabel = tNameLabel] >>

\* text inputs labelled "Shipping address", "Phone number home office" and
\* "Cell number phone home"
AddressPage == <<
    [NoElem EXCEPT !.ariaLabel = tShipping],
    [NoElem EXCEPT !.ariaLabel = tPhoneHomeOffice],
    [NoElem EXCEPT !.ariaLabel = tCellPhoneHome] >>

tPhoneHash == <<"P","h","o","n","e"," ","#">>
tHash == <<"#">>
tTown == <<"T","o","w","n">>

\* text inputs labelled "Email" and "Phone #"
PhonePage == <<
    [NoElem EXCEPT !.ariaLabel = tEmailLabel],
    [NoElem EXCEPT !.ariaLabel = tPhoneHash] >>

\* text inputs labelled "Email" and "#"
HashPage == <<
    [NoElem EXCEPT !.ariaLabel = tEmailLabel],
    [NoElem EXCEPT !.ariaLabel = tHash] >>

MatchSessions == {
    [doc |-> PhonePage, tz |-> 0, ai |-> { <<Answer(tHash, tAbc)>> }],
    [doc |-> HashPage, tz |-> 0, ai |-> { <<Answer(tTown, tAbc)>> }],
    [doc |-> NamesPage, tz |-> 0,
     ai  |-> { <<Answer(tNameLabel, tAbc)>>, <<Answer(tNam, tAbc)>> }],
    [doc |-> AddressPage, tz |-> 0,
     ai  |-> { <<Answer(tBilling, tAbc)>>,
               <<Answer(tHomePhoneCell, tAbc)>>,
               <<Answer(tHomePhone, tAbc)>>,
               <<Answer(tToBe, tAbc)>> }] }

InitMatch == \E sn \in MatchSessions : InitSession(sn)

\* FieldInjector.injectAnswers(answers, fields) with the detector's catalog,
\* up to the first focus delay of the batch (or to its end)
InjectAnswers(answers) ==
    /\ started < MaxBatches
    /\ dispatched' = <<>>
    /\ started' = started + 1
    /\ LET b == Advance(NewBatch(started + 1, answers, detectedFields))
       IN  IF b.pc = "done"
           THEN /\ last' = Returned(Step("inject"), b)
                /\ UNCHANGED batches
           ELSE /\ last' = Step("inject")
                /\ batches' = Append(batches, b)
    /\ UNCHANGED <<doc, tzOffset, value, checked, style, detectedFields,
                   formFields, generatedAnswers, applyDisabled, selected,
                   injectedFields, timers, aiAnswers>>

NextMatch ==
    \/ \E answers \in aiAnswers : InjectAnswers(answers)
    \/ \E k \in DOMAIN batches : FocusDelayOver(k)
    \/ HighlightTimeout

SpecMatch == InitMatch /\ [][NextMatch]_vars

-----------------------------------------------------------------------------
(* Properties *)

\* some window of the text, lower-cased, is the token
HasToken(text, tok) ==
    \E i \in 1..Len(text) :
        /\ i + Len(tok) - 1 <= Len(text)
        /\ \A j \in 1..Len(tok) : LowerChar(text[i + j - 1]) = tok[j]

Denylisted(el) ==
    \E tok \in skipNames : HasToken(el.name, tok) \/ HasToken(el.id, tok)

\* C1: what detectFields() or refresh() has just returned holds no record of
\* an element of type "hidden", of a disabled element, or of an element whose
\* name or id contains a denylist token in any letter case.
C1_ScanExcludes ==
    last.op \in {"detectFields", "refresh"} =>
        \A k \in DOMAIN detectedFields :
            LET el == doc[detectedFields[k].element]
            IN  el.type # "hidden" /\ ~el.disabled /\ ~Denylisted(el)

\* a scan has returned records on a page that holds a hidden input, a disabled
\* input and a field whose mixed-case name holds a token
C1_Witness ==
    /\ last.op \in {"detectFields", "refresh"}
    /\ detectedFields # <<>>
    /\ \E e \in Elems : doc[e].type = "hidden"
    /\ \E e \in Elems : doc[e].disabled
    /\ \E e \in Elems : Denylisted(doc[e]) /\ ~IsSystemFieldCaseSensitive(doc[e])

\* C2: on the page with the radio group "gender" (Male, then Female), once
\* injectAnswers has returned for the single answer Gender -> "female", the
\* Female button is checked and the Male button is not.
C2_FemaleChecked ==
    (doc = GenderPage /\ last.returned) => (checked[2] /\ ~checked[1])

\* the dom one call of injectAnswers leaves behind, focus delays aside
RECURSIVE AfterAnswers(_,_,_)
AfterAnswers(answers, fields, dom) ==
    IF answers = <<>> THEN dom
    ELSE LET m == findMatchingField(Head(answers).fieldLabel, fields)
         IN  AfterAnswers(Tail(answers), fields,
                 IF m = NoField \/ ~isElementInteractable(m.element) THEN dom
                 ELSE WriteField(m, Head(answers).answer, dom).dom)

LoadedDom ==
    [value    |-> [e \in Elems |-> doc[e].valueAttr],
     checked  |-> [e \in Elems |-> FALSE],
     selected |-> [e \in Elems |-> InitialSelected(doc[e])]]

\* the page never changes and the assistant has one list of answers, so every
\* call of injectAnswers gets the same answers and the same fields
SameInputs ==
    /\ \A e \in Elems : ~doc[e].dynamic
    /\ Cardinality(aiAnswers) = 1

Quiescent == batches = <<>> /\ timers = <<>>

\* C3: with the same answers and fields in every call, once the calls have
\* returned and all highlight timers have fired, the elements hold what a
\* single call leaves (value, checked, selection) and the border and
\* box-shadow they had before: no highlight stays on an element.
C3_Idempotent ==
    (SameInputs /\ started >= 1 /\ Quiescent) =>
        /\ Dom = AfterAnswers(parseFormAnswers(CHOOSE a \in aiAnswers : TRUE, Scan),
                              Scan, LoadedDom)
        /\ \A e \in Elems : style[e] = NoStyle

\* the same after the first call alone
C3_SingleCall ==
    (SameInputs /\ started = 1 /\ Quiescent) =>
        /\ Dom = AfterAnswers(parseFormAnswers(CHOOSE a \in aiAnswers : TRUE, Scan),
                              Scan, LoadedDom)
        /\ \A e \in Elems : style[e] = NoStyle

\* C4: a successful write into a date input leaves the ISO form of the
\* calendar day the content names, whatever the host's time zone: the day a
\* host on UTC reads from it, and 2024-03-05 for "on 5 March 2024".
C4_DateWritten ==
    (/\ last.op = "write"
     /\ last.outcome = "ok"
     /\ doc[last.element].type = "date")
        => /\ value[last.element] = parseDate(last.content, 0)
           /\ last.content = tOn5March2024 => value[last.element] = t20240305

\* how many answers of the log ended in one of the ways W
Count(log, W) == Cardinality({k \in DOMAIN log : log[k] \in W})

\* the counters of a batch against what became of its answers so far
CountsAgree(b) ==
    /\ \A k \in DOMAIN b.log :
           (b.log[k] = "unmatched") <=>
               (findMatchingField(b.answers[k].fieldLabel, b.fields) = NoField)
    /\ b.totalAttempts = Count(b.log, {"pending", "ok", "fail", "caught"})
    /\ b.successCount = Count(b.log, {"ok"})
    /\ 0 <= b.successCount
    /\ b.successCount <= b.totalAttempts
    /\ b.totalAttempts <= Len(b.log)
    /\ Len(b.log) <= Len(b.answers)

\* C5: in every batch, at each focus delay and at its return, totalAttempts is
\* the number of answers so far for which the matcher found a field,
\* successCount the number of them written successfully, and
\* 0 <= successCount <= totalAttempts <= answers processed so far;
\* injectAnswers returns true exactly when successCount > 0.
C5_Counts ==
    /\ \A k \in DOMAIN batches : CountsAgree(batches[k])
    /\ last.returned =>
           /\ CountsAgree(last.batch)
           /\ Len(last.batch.log) = Len(last.batch.answers)
           /\ last.result <=> (Count(last.batch.log, {"ok"}) > 0)

\* a batch has returned with an answer dropped by the matcher and another
\* one written
C5_Witness ==
    /\ last.returned
    /\ Count(last.batch.log, {"unmatched"}) > 0
    /\ Count(last.batch.log, {"ok"}) > 0

\* a batch has returned false after a failed attempt
C5_WitnessFailed ==
    /\ last.returned
    /\ ~last.result
    /\ Count(last.batch.log, {"fail", "caught"}) > 0

\* C6: an exception raised while a field is injected (matching works on
\* strings alone and raises none) never leaves that field's attempt: the
\* attempt fails and dispatches nothing, no exception reaches injectAnswers, the
\* batch goes on to its last answer, and the value returned still tells
\* whether another answer was written.
C6_ExceptionConfined ==
    /\ \A k \in DOMAIN batches : Count(batches[k].log, {"throw"}) = 0
    /\ (last.op = "write" /\ last.caught) =>
           /\ last.outcome = "fail"
           /\ dispatched = <<>>
           /\ \/ last.returned
              \/ \E k \in DOMAIN batches :
                     /\ batches[k].id = started
                     /\ batches[k].pc = "wait"
                     /\ batches[k].log[Len(batches[k].log)] = "pending"
    /\ last.returned =>
           /\ Count(last.batch.log, {"throw"}) = 0
           /\ Len(last.batch.log) = Len(last.batch.answers)
           /\ last.result <=> (Count(last.batch.log, {"ok"}) > 0)
           /\ last.batch.totalAttempts - last.batch.successCount
                  >= Count(last.batch.log, {"caught"})

\* a batch has returned true although the injection of an earlier answer
\* raised an exception
C6_Witness ==
    /\ last.returned
    /\ last.result
    /\ \E j, k \in DOMAIN last.batch.log :
           j < k /\ last.batch.log[j] = "caught" /\ last.batch.log[k] = "ok"

\* the elements whose writer sets .value
HoldsText(e) ==
    \/ doc[e].tag = "TEXTAREA"
    \/ doc[e].tag = "INPUT" /\ doc[e].type \notin {"checkbox", "radio"}

\* C7: every entry of the registry holds, for an element whose value was
\* written, the value that element holds since its last successful write.
C7_RegistryHoldsWritten ==
    \A k \in DOMAIN injectedFields :
        HoldsText(injectedFields[k].element) =>
            injectedFields[k].value = value[injectedFields[k].element]

\* C8 as the specification words it: after clearAllInjections and after a
\* re-scan (detectFields or refresh) the registry has no entries.
C8_EmptyAfterRescan ==
    last.op \in {"clearAllInjections", "detectFields", "refresh"} =>
        injectedFields = <<>>

\* C8: the registry is empty at the start; a successful write leaves an entry
\* for the field's element and an unsuccessful one leaves the registry as it
\* was; clearAllInjections empties it; detectFields and refresh leave it as it
\* was, and so does every other step.
C8_Registry ==
    /\ injectedFields = <<>>
    /\ [][ CASE last'.op = "clearAllInjections" -> injectedFields' = <<>>
             [] last'.op = "write" /\ last'.outcome = "ok" ->
                    /\ \E k \in DOMAIN injectedFields' :
                           injectedFields'[k].element = last'.element
                    /\ \A e \in Elems \ {last'.element} :
                           (\E k \in DOMAIN injectedFields' :
                                injectedFields'[k].element = e)
                           <=> (\E k \in DOMAIN injectedFields :
                                    injectedFields[k].element = e)
             [] OTHER -> injectedFields' = injectedFields ]_vars

\* a re-scan has returned while the registry holds an entry
C8_Witness ==
    /\ last.op \in {"detectFields", "refresh"}
    /\ injectedFields # <<>>
    /\ detectedFields # <<>>

\* C9: at most one batch is in flight, and while one is, the apply button is
\* disabled, so that no click starts another.
C9_OneBatch ==
    /\ Len(batches) <= 1
    /\ batches # <<>> => applyDisabled

\* a batch is in the focus delay of its second answer, after an earlier batch
C9_Witness ==
    /\ started = 2
    /\ batches # <<>>
    /\ batches[1].i >= 2
    /\ applyDisabled

\* the element a successful write changed: for a radio group the button that
\* got checked
Written(step) ==
    IF IsRadio(step.element) THEN RadioTarget(step.element, step.content)
    ELSE step.element

ExpectedEvents(e) ==
    << [type |-> "input",  on |-> e, bubbles |-> TRUE, cancelable |-> TRUE,
        target |-> e, targetOverridden |-> FALSE],
       [type |-> "change", on |-> e, bubbles |-> TRUE, cancelable |-> TRUE,
        target |-> e, targetOverridden |-> FALSE],
       [type |-> "blur",   on |-> e, bubbles |-> TRUE, cancelable |-> TRUE,
        target |-> e, targetOverridden |-> FALSE],
       [type |-> "input",  on |-> e, bubbles |-> TRUE, cancelable |-> TRUE,
        target |-> e, targetOverridden |-> TRUE] >>

\* C10: a step dispatches input, change, blur and the second input event,
\* all on the written element, exactly when it is a successful write; a
\* failed write dispatches nothing.
C10_Events ==
    IF last.op = "write" /\ last.outcome = "ok"
    THEN dispatched = ExpectedEvents(Written(last))
    ELSE dispatched = <<>>

\* the same, taking the element to be the one of the matched field record
C10_EventsOnFieldElement ==
    IF last.op = "write" /\ last.outcome = "ok"
    THEN dispatched = ExpectedEvents(last.element)
    ELSE dispatched = <<>>

\* the element takes text as its value: a text-like input or a textarea
IsTextField(e) ==
    \/ doc[e].tag = "TEXTAREA"
    \/ doc[e].tag = "INPUT" /\ doc[e].type \in TextLike

\* C11: a successful write into a text-like input or a textarea whose
\* maxLength L is positive and smaller than the length of the content leaves
\* exactly the first L characters of the content; any other leaves the content
\* as it is.
C11_TextWritten ==
    (last.op = "write" /\ last.outcome = "ok" /\ IsTextField(last.element)) =>
        LET L == doc[last.element].maxLength
            c == last.content
            v == value[last.element]
        IN  IF L > 0 /\ Len(c) > L
            THEN Len(v) = L /\ \A i \in 1..L : v[i] = c[i]
            ELSE v = c

\* 20 characters have been written into a field of maxLength 10
C11_Witness ==
    /\ last.op = "write"
    /\ last.outcome = "ok"
    /\ IsTextField(last.element)
    /\ doc[last.element].maxLength = 10
    /\ Len(last.content) = 20
    /\ Len(value[last.element]) = 10

\* the digits of s from position i on, up to the first character that is none
RECURSIVE DigitRun(_,_)
DigitRun(s, i) ==
    IF i > Len(s) \/ ~IsDigit(s[i]) THEN <<>> ELSE <<s[i]>> \o DigitRun(s, i + 1)

\* the first numeric token of s from position i on: its whole digits and the
\* digits of its fraction (whole = <<>> when s holds no digit)
RECURSIVE FirstToken(_,_)
FirstToken(s, i) ==
    IF i > Len(s) THEN [whole |-> <<>>, fraction |-> <<>>]
    ELSE IF ~IsDigit(s[i]) THEN FirstToken(s, i + 1)
    ELSE LET w == DigitRun(s, i)
             j == i + Len(w)
         IN  [whole    |-> w,
              fraction |-> IF j <= Len(s) /\ s[j] = "." THEN DigitRun(s, j + 1)
                           ELSE <<>>]

\* the number of the token against whole-numbered bounds
TokenBelow(t, bound) == ParseNat(t.whole) < bound
TokenAbove(t, bound) ==
    \/ ParseNat(t.whole) > bound
    \/ ParseNat(t.whole) = bound /\ \E i \in DOMAIN t.fraction : t.fraction[i] # "0"

TokenOutOfRange(t, el) ==
    \/ el.hasMin /\ TokenBelow(t, el.min)
    \/ el.hasMax /\ TokenAbove(t, el.max)

\* C12: a write into a number input whose content's first numeric token is
\* below the declared min or above the declared max fails and leaves the value
\* as it was; after a successful write the value is a number within the
\* declared bounds.
C12_NumberBounds ==
    [][ (last'.op = "write" /\ doc[last'.element].type = "number") =>
            LET e == last'.element
                t == FirstToken(last'.content, 1)
            IN  /\ (t.whole # <<>> /\ TokenOutOfRange(t, doc[e])) =>
                       (last'.outcome = "fail" /\ value'[e] = value[e])
                /\ last'.outcome = "ok" =>
                       /\ FirstToken(value'[e], 1).whole # <<>>
                       /\ ~TokenOutOfRange(FirstToken(value'[e], 1), doc[e]) ]_vars

\* "150 items" has been refused by a number input with max=100 that holds 42
C12_Witness ==
    /\ last.op = "write"
    /\ last.outcome = "fail"
    /\ doc[last.element].type = "number"
    /\ doc[last.element].hasMax
    /\ last.content = t150Items
    /\ value[last.element] = t42

\* the catalog {Full Name (text), Email Address (email, required),
\* Comments (textarea, maxlength=50)}
IsFeedbackCatalog(fields) ==
    /\ Len(fields) = 3
    /\ fields[1].label = tFullName /\ fields[1].type = "text"
    /\ fields[2].label = tEmailAddress /\ fields[2].type = "email"
    /\ fields[2].required
    /\ fields[3].label = tComments /\ fields[3].type = "textarea"
    /\ fields[3].maxLength = 50

\* C13: when injectAnswers returns from the batch of the three answers Full
\* Name, Email Address and Comments (60 characters) over the catalog of those
\* three fields, all three fields are written, Comments holds the first 50
\* characters, totalAttempts = 3, successCount = 3 and the value returned is
\* true.
C13_ThreeFields ==
    (/\ last.returned
     /\ last.batch.answers = FeedbackAnswers
     /\ IsFeedbackCatalog(last.batch.fields)) =>
        /\ value[1] = tJaneDoe
        /\ value[2] = tJaneMail
        /\ value[3] = SubSeq(tSixty, 1, 50)
        /\ last.batch.totalAttempts = 3
        /\ last.batch.successCount = 3
        /\ last.result

C13_Witness ==
    /\ last.returned
    /\ last.batch.answers = FeedbackAnswers
    /\ IsFeedbackCatalog(last.batch.fields)
    /\ Len(FeedbackAnswers[3].answer) = 60
    /\ Len(value[3]) = 50

\* the latest step was a scan, and it returned its catalog
ScanReturned ==
    last.op \in {"detectFields", "refresh"} /\ last.outcome # "throw"

\* the place of element e's first visit by the scan
FirstVisit(e) ==
    CHOOSE k \in DOMAIN Visited :
        Visited[k] = e /\ \A j \in 1..(k - 1) : Visited[j] # e

OneRecordEach(c) ==
    /\ \A i, j \in DOMAIN c : c[i].element = c[j].element => i = j
    /\ \A i \in DOMAIN c : c[i].type \notin {"submit", "button", "reset", "image"}
    /\ \A i, j \in DOMAIN c :
           i < j => FirstVisit(c[i].element) < FirstVisit(c[j].element)

\* C14: a catalog that detectFields() returns (to a caller of detectFields() or
\* refresh(), or to the view-mode analysis) holds no two records of one
\* element, keeps the records in the order of their elements' first visits,
\* and holds no record of type submit, button, reset or image.
C14_OneRecordPerElement ==
    /\ ScanReturned => OneRecordEach(detectedFields)
    /\ formFields.set => OneRecordEach(formFields.fields)

\* a scan has returned the record of an input that lies in two forms, on a
\* page with submit, image, button and reset inputs that the skip check lets by
C14_Witness ==
    /\ ScanReturned
    /\ \E i \in DOMAIN detectedFields :
           Cardinality(doc[detectedFields[i].element].forms) = 2
    /\ \A t \in {"submit", "button", "reset", "image"} :
           \E e \in Elems : doc[e].type = t /\ ~ShouldSkipField(doc[e])

\* the elements a scan of the page as it is has a record for
Eligible ==
    {e \in Elems : /\ ~ShouldSkipField(doc[e])
                   /\ ~ExtractFails(doc[e])
                   /\ getFieldType(doc[e]) \notin
                          {"submit", "button", "reset", "image"}}

\* element a comes before element b: by the first form that holds them, forms
\* in document order and standalone elements last, then by document order
FormRank(e) ==
    IF doc[e].forms = {} THEN Cardinality(Forms) + 1
    ELSE Cardinality({f \in Forms : \E g \in doc[e].forms : f <= g /\
                         \A h \in doc[e].forms : g <= h})
ComesBefore(a, b) ==
    FormRank(a) < FormRank(b) \/ (FormRank(a) = FormRank(b) /\ a < b)

\* C15: the catalog a call of detectFields() or refresh() returns is fixed by
\* the page as it is at the call, whatever was scanned or injected before: one
\* record for each eligible element, the fields of the forms first (forms in
\* document order, fields of a form in document order), then the standalone
\* fields in document order, each with the label resolved from the element.
C15_Deterministic ==
    ScanReturned =>
        /\ {detectedFields[i].element : i \in DOMAIN detectedFields} = Eligible
        /\ Len(detectedFields) = Cardinality(Eligible)
        /\ \A i, j \in DOMAIN detectedFields :
               i < j => ComesBefore(detectedFields[i].element,
                                    detectedFields[j].element)
        /\ \A i \in DOMAIN detectedFields :
               detectedFields[i].label =
                   findFieldLabel(doc[detectedFields[i].element])

\* a scan has returned after an injection, with the record of a form's field
\* ahead of the record of a standalone field that precedes it in the document
C15_Witness ==
    /\ ScanReturned
    /\ injectedFields # <<>>
    /\ \E i, j \in DOMAIN detectedFields :
           /\ i < j
           /\ detectedFields[i].element > detectedFields[j].element
           /\ doc[detectedFields[i].element].forms # {}
           /\ doc[detectedFields[j].element].forms = {}

\* C16: a call of detectFields() or refresh() always returns, and the catalog
\* it returns holds the records of all eligible elements but those whose
\* metadata or style could not be read (an exception while one element is
\* handled skips that element alone).
C16_ScanNeverFails ==
    last.op \in {"detectFields", "refresh"} =>
        /\ last.outcome # "throw"
        /\ {detectedFields[i].element : i \in DOMAIN detectedFields}
               = {e \in Eligible : ~SkipThrows(doc[e])}

\* the words of a label: its letters and digits, the letters in lower case,
\* cut at the whitespace; cur is the word being read
RECURSIVE WordsOf(_,_)
WordsOf(s, cur) ==
    IF s = <<>> THEN (IF cur = <<>> THEN <<>> ELSE <<cur>>)
    ELSE IF Head(s) \in WhiteSpace
         THEN (IF cur = <<>> THEN <<>> ELSE <<cur>>) \o WordsOf(Tail(s), <<>>)
    ELSE IF IsUpper(Head(s)) \/ IsLower(Head(s)) \/ IsDigit(Head(s))
         THEN WordsOf(Tail(s), Append(cur, LowerChar(Head(s))))
    ELSE WordsOf(Tail(s), cur)

\* two labels differ in nothing but letter case, punctuation and whitespace
SameWords(a, b) == WordsOf(a, <<>>) = WordsOf(b, <<>>)

\* the labels at hand: of the assistant's answers, of the catalog, of the page
LabelsAtHand ==
    UNION { {l[i].fieldLabel : i \in DOMAIN l} : l \in aiAnswers }
    \cup {detectedFields[i].label : i \in DOMAIN detectedFields}
    \cup {doc[e].ariaLabel : e \in Elems}

\* C17: labels that differ only in letter case, in punctuation and in
\* whitespace (run lengths, leading and trailing) have the same normalizeLabel
\* result; normalizeLabel("Full Name:") = normalizeLabel("full name").
C17_NormalizeInsensitive ==
    \A a, b \in LabelsAtHand :
        SameWords(a, b) => normalizeLabel(a) = normalizeLabel(b)

\* the answer labelled "FULL NAME:" has been written into the field labelled
\* "Full Name", with "Full - Name", "Full   Name" and "full name" at hand
C17_Witness ==
    /\ last.returned
    /\ last.result
    /\ last.batch.answers[1].fieldLabel = tUpperFullName
    /\ last.batch.fields[1].label = tFullName
    /\ {tFullNameColon, tLowerFullName, tDashFullName, tWideFullName}
           \subseteq LabelsAtHand
    /\ SameWords(tDashFullName, tFullNameColon)

\* C18: a write into a checkbox succeeds, and leaves it checked when the
\* content, trimmed and in lower case, is one of yes, true, 1, checked, on,
\* agree and unchecked otherwise, whatever it was before.
C18_Checkbox ==
    (last.op = "write" /\ doc[last.element].type = "checkbox") =>
        /\ last.outcome = "ok"
        /\ checked[last.element] <=>
               Trim(ToLowerCase(last.content)) \in
                   {sYes, sTrue, <<"1">>, sChecked, sOn, sAgree}

\* "No" has been written into the checkbox that the answer before it, "Yes",
\* had checked
C18_Witness ==
    /\ last.op = "write"
    /\ last.returned
    /\ doc[last.element].type = "checkbox"
    /\ last.content = tNoAnswer
    /\ last.batch.answers[1].answer = tYesAnswer
    /\ last.batch.log = <<"ok", "ok">>
    /\ ~checked[last.element]

\* the batch with the given id as it stands: in flight, or just returned
BatchNow(id, bs, step) ==
    IF step.returned /\ step.batch.id = id THEN step.batch
    ELSE LET k == CHOOSE k \in DOMAIN bs : bs[k].id = id IN bs[k]

BatchIds(bs, step) ==
    {bs[k].id : k \in DOMAIN bs}
    \cup (IF step.returned THEN {step.batch.id} ELSE {})

\* every matched answer is counted in totalAttempts, the written ones alone
\* in successCount
AttemptsCounted(b) ==
    /\ b.successCount = Count(b.log, {"ok"})
    /\ b.totalAttempts = Count(b.log, {"ok", "fail", "caught", "pending"})

RegistryOf(reg, e) == {reg[k].value : k \in {j \in DOMAIN reg : reg[j].element = e}}

\* nothing of element e has changed in the step, and no event went to it
Untouched(e) ==
    /\ value'[e] = value[e]
    /\ checked'[e] = checked[e]
    /\ selected'[e] = selected[e]
    /\ style'[e] = style[e]
    /\ \A j \in DOMAIN dispatched' : dispatched'[j].on # e
    /\ RegistryOf(injectedFields', e) = RegistryOf(injectedFields, e)

\* the answers of batch b that the step has turned down before their focus
\* delay, given that b's log had n entries before the step
TurnedDown(b, n) ==
    {i \in (n + 1)..Len(b.log) : b.log[i] \in {"fail", "caught"}}

\* C19: a failed injection of a field changes nothing.  A write that fails
\* after the focus delay (unsupported type, unparsable date, number missing or
\* out of range, no matching option or radio button) leaves values, checked
\* states, selections, styles, timers and the registry as they were and
\* dispatches no event; an answer whose field is not interactable leaves that
\* field untouched; and every such attempt is counted in totalAttempts and not
\* in successCount.
C19_FailedInjectionFrame ==
    [][ /\ (last'.op = "write" /\ last'.outcome # "ok") =>
               /\ value' = value /\ checked' = checked /\ selected' = selected
               /\ style' = style /\ timers' = timers
               /\ injectedFields' = injectedFields
               /\ dispatched' = <<>>
        /\ \A id \in BatchIds(batches', last') :
               LET b == BatchNow(id, batches', last')
                   n == IF \E k \in DOMAIN batches : batches[k].id = id
                        THEN Len(BatchNow(id, batches, NoStep).log)
                        ELSE 0
               IN  /\ AttemptsCounted(b)
                   /\ \A i \in TurnedDown(b, n) :
                          LET m == findMatchingField(b.answers[i].fieldLabel,
                                                     b.fields).element
                          IN  \/ last'.op = "write" /\ last'.element = m
                                                    /\ last'.outcome = "ok"
                              \/ Untouched(m) ]_vars

\* a range input that holds 42 has turned its answer down: the batch returns
\* one attempt and no success
C19_Witness ==
    /\ last.op = "write"
    /\ last.outcome = "fail"
    /\ last.returned
    /\ doc[last.element].type = "range"
    /\ value[last.element] = t42
    /\ last.batch.totalAttempts = 1
    /\ last.batch.successCount = 0

\* the answer for a text input that a page script had disabled was turned down
C19_WitnessBlocked ==
    /\ last.returned
    /\ last.batch.log = <<"fail", "fail">>
    /\ doc[1].disabled
    /\ value[1] = t42

\* what each strategy of the label resolver yields for an element, in order
LabelStrategies(el) ==
    << IF el.id # <<>> THEN cleanLabelText(el.labelFor) ELSE <<>>,
       cleanLabelText(el.wrapLabel),
       cleanLabelText(el.ariaLabel),
       cleanLabelText(el.labelledBy),
       cleanLabelText(el.title),
       cleanLabelText(el.placeholder),
       formatNameAsLabel(el.name),
       cleanLabelText(el.nearby),
       sUnlabeled >>

FirstNonEmpty(results) ==
    results[CHOOSE k \in DOMAIN results :
                results[k] # <<>> /\ \A j \in 1..(k - 1) : results[j] = <<>>]

\* C20: the label of every record of a catalog that a scan returns is what
\* the first strategy with a non-empty result yields (label[for], wrapping
\* label, aria-label,
\* aria-labelledby, title, placeholder, formatted name, nearby text,
\* "Unlabeled field"); no record has an empty label.
C20_LabelWaterfall ==
    ScanReturned =>
        \A i \in DOMAIN detectedFields :
            /\ detectedFields[i].label # <<>>
            /\ detectedFields[i].label =
                   FirstNonEmpty(LabelStrategies(doc[detectedFields[i].element]))

\* no whitespace at either end, no two whitespace characters in a row, no
\* '*' or ':' at the end
Tidy(l) ==
    /\ l = <<>> \/ (l[1] \notin WhiteSpace /\ l[Len(l)] \notin WhiteSpace)
    /\ \A i \in 1..(Len(l) - 1) :
           ~(l[i] \in WhiteSpace /\ l[i + 1] \in WhiteSpace)
    /\ l = <<>> \/ l[Len(l)] \notin {"*", ":"}

\* C21: the label of every record of a catalog, whichever strategy resolved
\* it, has no leading or trailing whitespace, no run of two or more whitespace
\* characters and no trailing '*' or ':'.
C21_TidyLabels ==
    /\ ScanReturned =>
           \A i \in DOMAIN detectedFields : Tidy(detectedFields[i].label)
    /\ formFields.set =>
           \A i \in DOMAIN formFields.fields : Tidy(formFields.fields[i].label)

\* the fields whose normalized label equals that of the answer, and those
\* whose normalized label contains it or is contained in it
ExactFields(label, fields) ==
    {k \in DOMAIN fields : normalizeLabel(fields[k].label) = normalizeLabel(label)}

ContainingFields(label, fields) ==
    {k \in DOMAIN fields :
        \/ Includes(normalizeLabel(fields[k].label), normalizeLabel(label))
        \/ Includes(normalizeLabel(label), normalizeLabel(fields[k].label))}

Least(S) == CHOOSE k \in S : \A j \in S : k <= j

\* the batches at hand: in flight, or just returned
BatchesAtHand ==
    {batches[k] : k \in DOMAIN batches}
    \cup (IF last.returned THEN {last.batch} ELSE {})

\* C22: the field matched to an answer is the first field whose normalized
\* label equals the answer's, even when an earlier field matches by
\* containment; failing that, the first field that matches by containment;
\* an answer is left to the token-overlap step, or unmatched, only when no
\* field matches exactly or by containment.
C22_StrategyOrder ==
    \A b \in BatchesAtHand :
        /\ b.pc = "wait" =>
               LET E == ExactFields(b.answers[b.i].fieldLabel, b.fields)
                   P == ContainingFields(b.answers[b.i].fieldLabel, b.fields)
               IN  /\ E # {} => b.field = b.fields[Least(E)]
                   /\ (E = {} /\ P # {}) => b.field = b.fields[Least(P)]
        /\ \A i \in DOMAIN b.log :
               b.log[i] = "unmatched" =>
                   /\ ExactFields(b.answers[i].fieldLabel, b.fields) = {}
                   /\ ContainingFields(b.answers[i].fieldLabel, b.fields) = {}

\* the answer "Name" waits to be written into the field "Name", the second of
\* the catalog, whose first field "First name" contains the label
C22_Witness ==
    \E k \in DOMAIN batches :
        LET b == batches[k]
            E == ExactFields(b.answers[b.i].fieldLabel, b.fields)
            P == ContainingFields(b.answers[b.i].fieldLabel, b.fields)
        IN  /\ b.pc = "wait"
            /\ E # {}
            /\ Least(P) < Least(E)
            /\ b.field = b.fields[Least(E)]

\* the tokens of a label, and two tokens that are equal or one inside the other
TokensOf(label) == extractKeywords(normalizeLabel(label))
Alike(t, u) == t = u \/ Includes(t, u) \/ Includes(u, t)

\* the overlap of the answer's tokens ka with a candidate's tokens kf: the
\* tokens of ka with a like among kf, over the length of the longer list
Overlap(ka, kf) ==
    [num |-> Cardinality({i \in DOMAIN ka : \E j \in DOMAIN kf : Alike(ka[i], kf[j])}),
     den |-> IF Len(ka) >= Len(kf) THEN Len(ka) ELSE Len(kf)]

\* the candidates whose overlap with the label is above 0.5 and is the highest
BestByOverlap(label, fields) ==
    LET ka == TokensOf(label)
        sc(k) == Overlap(ka, TokensOf(fields[k].label))
        ok(k) == ka # <<>> /\ TokensOf(fields[k].label) # <<>>
                 /\ 2 * sc(k).num > sc(k).den
    IN  {k \in DOMAIN fields :
            /\ ok(k)
            /\ \A j \in DOMAIN fields :
                   ok(j) => sc(j).num * sc(k).den <= sc(k).num * sc(j).den}

\* the answer reaches the token-overlap step
ByTokens(label, fields) ==
    ExactFields(label, fields) = {} /\ ContainingFields(label, fields) = {}

\* C23: in the token-overlap step the score of a candidate lies in [0,1];
\* the field matched is the first of the candidates with the highest score
\* when that score is above 0.5, and there is no match when every score is at
\* most 0.5 or a token list is empty.
C23_TokenOverlap ==
    \A b \in BatchesAtHand :
        /\ \A i \in DOMAIN b.answers : \A k \in DOMAIN b.fields :
               LET sc == Overlap(TokensOf(b.answers[i].fieldLabel),
                                 TokensOf(b.fields[k].label))
               IN  0 <= sc.num /\ sc.num <= sc.den
        /\ (b.pc = "wait" /\ ByTokens(b.answers[b.i].fieldLabel, b.fields)) =>
               LET best == BestByOverlap(b.answers[b.i].fieldLabel, b.fields)
               IN  best # {} /\ b.field = b.fields[Least(best)]
        /\ \A i \in DOMAIN b.log :
               (b.log[i] = "unmatched"
                    /\ ByTokens(b.answers[i].fieldLabel, b.fields)) =>
                   BestByOverlap(b.answers[i].fieldLabel, b.fields) = {}

\* "Home phone number cell" waits for the third field, whose score is 1, the
\* second field scoring 3/4
C23_Witness ==
    \E k \in DOMAIN batches :
        LET b == batches[k] IN
        /\ b.pc = "wait"
        /\ b.answers[b.i].fieldLabel = tHomePhoneCell
        /\ ByTokens(tHomePhoneCell, b.fields)
        /\ b.field = b.fields[3]
        /\ Overlap(TokensOf(tHomePhoneCell), TokensOf(b.fields[2].label))
               = [num |-> 3, den |-> 4]

\* "Billing address", whose best score is 1/2, has been left unmatched
C23_WitnessHalf ==
    /\ last.returned
    /\ last.batch.answers[1].fieldLabel = tBilling
    /\ last.batch.log = <<"unmatched">>
    /\ Overlap(TokensOf(tBilling), TokensOf(tShipping)) = [num |-> 1, den |-> 2]

\* the options of select e that the content matches: the option's text
\* contains the content or is contained in it, or the option's value equals
\* it, all trimmed and in lower case
MatchingOptions(e, content) ==
    LET c == Trim(ToLowerCase(content))
    IN  {k \in DOMAIN doc[e].options :
            \/ Includes(Trim(ToLowerCase(doc[e].options[k].text)), c)
            \/ Includes(c, Trim(ToLowerCase(doc[e].options[k].text)))
            \/ Trim(ToLowerCase(doc[e].options[k].value)) = c}

\* C24: a write into a select succeeds exactly when some option matches the
\* content; it then selects the first matching option (alone, in a select-one);
\* when no option matches, it fails and the selection is as before.
C24_Select ==
    [][ (last'.op = "write" /\ doc[last'.element].tag = "SELECT") =>
            LET e == last'.element
                M == MatchingOptions(e, last'.content)
            IN  /\ last'.outcome = "ok" <=> M # {}
                /\ M # {} =>
                       /\ Least(M) \in selected'[e]
                       /\ \A k \in selected'[e] : k = Least(M) \/ k \in selected[e]
                       /\ doc[e].type = "select-one" => selected'[e] = {Least(M)}
                /\ M = {} => selected' = selected ]_vars

\* "sweden" has selected Sweden, the third option, and not New Sweden
C24_Witness ==
    /\ last.op = "write"
    /\ last.outcome = "ok"
    /\ doc[last.element].type = "select-one"
    /\ last.content = tSwedenAnswer
    /\ MatchingOptions(last.element, last.content) = {3, 4}
    /\ selected[last.element] = {3}

\* C25: the success highlight is transient: whenever no highlight timer is
\* pending (none was set yet, or all have fired), every element has the border
\* and box-shadow it had before its first highlight.
C25_HighlightTransient ==
    timers = <<>> => \A e \in Elems : style[e] = NoStyle

\* C29: when injectAnswers returns, its notification announces full success
\* ("All N fields filled successfully") only if the value returned is true.
C29_FeedbackAgrees ==
    (last.returned /\ last.feedback = "all") => last.result

\* C26: no answer is bound to a field through an empty normalized label: an
\* answer whose label normalizes to the empty string stays unmatched, and the
\* field an answer waits for has a label that does not normalize to the empty
\* string.
C26_NoEmptyLabelBinding ==
    \A b \in BatchesAtHand :
        /\ \A i \in DOMAIN b.log :
               normalizeLabel(b.answers[i].fieldLabel) = <<>> =>
                   b.log[i] = "unmatched"
        /\ b.pc = "wait" => normalizeLabel(b.field.label) # <<>>

\* C27: clearAllInjections() leaves every registered element empty: text,
\* textarea, date and number values are empty, a select shows its first option,
\* a registered checkbox is unchecked, no radio button of a registered group is
\* checked and the value attribute of a registered radio button is what the
\* page gave it; and the registry is empty.
Emptied(e) ==
    IF doc[e].tag = "SELECT" THEN selected'[e] \subseteq {1}
    ELSE IF doc[e].type = "checkbox" THEN ~checked'[e]
    ELSE IF doc[e].type = "radio"
    THEN /\ value'[e] = doc[e].valueAttr
         /\ \A g \in Elems :
                (doc[g].type = "radio" /\ doc[g].name = doc[e].name)
                    => ~checked'[g]
    ELSE value'[e] = <<>>

C27_Rollback ==
    [][last'.op = "clearAllInjections" =>
          /\ injectedFields' = <<>>
          /\ \A k \in DOMAIN injectedFields :
                 Emptied(injectedFields[k].element)]_vars

\* C28: after a successful radio injection the events are dispatched on the
\* radio button that was checked, that button carries the success highlight,
\* and the entry the registry gained is for that button.
C28_RadioTarget ==
    (last.op = "write" /\ last.outcome = "ok" /\ IsRadio(last.element)) =>
        LET w == Written(last)
        IN  /\ checked[w]
            /\ \A i \in DOMAIN dispatched : dispatched[i].on = w
            /\ style[w] = Highlighted(style, w)[w]
            /\ injectedFields # <<>>
            /\ injectedFields[Len(injectedFields)].element = w

\* the maxLength the catalog in use records for element e, where defined
RecordedMaxLength(e) ==
    {formFields.fields[k].maxLength : k \in
        {j \in DOMAIN formFields.fields :
            /\ formFields.fields[j].element = e
            /\ formFields.fields[j].maxLength # -1}}

\* C30: a successful write into a text-like input or a textarea leaves a value
\* no longer than the maxLength its catalog record gives, whether that came
\* from the maxLength property or from the pattern attribute.
C30_CatalogMaxLength ==
    (last.op = "write" /\ last.outcome = "ok" /\ IsTextField(last.element)) =>
        \A L \in RecordedMaxLength(last.element) :
            Len(value[last.element]) <= L

=============================================================================
